---- MODULE Spec2Model ----
(***************************************************************************)
(* A model of the state synchronisation engine of retell-sync-cli:         *)
(* canonicalisation of API resources, the structural diff, dependency      *)
(* propagation, the file serialiser / deserialiser, and the writing and    *)
(* cleaning of the agents and components directories by pull.              *)
(*                                                                         *)
(* JavaScript values are modelled as follows.                              *)
(*   - an object is a TLA+ record (a function from key strings); a key     *)
(*     that is undefined or missing is a key outside DOMAIN;               *)
(*   - an array is a sequence;                                             *)
(*   - a text (prompt, file body) is a sequence of one-character tokens;   *)
(*   - `null` for a numeric field is the value Null.                       *)
(***************************************************************************)
EXTENDS Integers, Sequences, FiniteSets, TLC

VARIABLES
    pc,          \* position of the running command / pipeline
    items,       \* keepLatestVersion: the input list
    latest,      \* keepLatestVersion: the returned list
    api,         \* what the list endpoints return: the four raw resource lists
    input,       \* the argument of canonicalizeFromApi
    required,    \* canonicalizeFromApi's locals: allLatestAgents, requiredLLMs, requiredConversationFlows
    canonical,   \* the CanonicalState returned
    source,      \* computeChanges: the source state (local files, or the remote draft)
    reference,   \* computeChanges: the reference state (remote draft, or published)
    includeNew,  \* computeChanges: the includeNew option
    changes,     \* computeChanges: the BaseChanges returned
    affected,    \* findAffectedAgentIds: the set returned
    edits,       \* number of edits that made source and reference diverge
    fileMap,     \* serializeState: the file map returned, in insertion order
    mutated,     \* serializeState: its argument as the call leaves it
    roundTrip,   \* canonicalizeFromFiles: the state returned, or the exception
    disk,        \* the files of the agents directory and of the components directory
    before,      \* each directory as it was when pull started
    managed,     \* pull: the agentIds option and the componentIds option
    remoteComponents, \* pull: what getRemoteComponents returned
    threw,       \* pull ended with an exception
    options,     \* the command run, its flags, and what the user and git will answer
    requests,    \* the requests sent to the API by the command, in the order sent
    batch,       \* the calls of the mutation batch, each with its outcome
    phoneBatch,  \* the calls of the phone-number update batch, each with its outcome
    log,         \* the lines logged
    outcome,     \* how the command ended, and what it returned
    phones,      \* the phone numbers of the account
    limit,       \* retellPagination: the page size asked for
    cursor,      \* retellPagination: paginationKey and paginationKeyVersion
    pageRequests, \* retellPagination: the options of the calls of `op`, in order
    pages,       \* retellPagination: the pages `op` returned, in order
    results,     \* retellPagination: the items collected
    markdownBody, \* writeMarkdown: the body
    navigation,  \* writeMarkdown: the frontmatter
    resolved,    \* resolveFilePlaceholders: what it leaves in place of the placeholder
    testApi      \* how the API answers list-test-case-definitions for each agent's engine

keepVars == <<items, latest>>
canonVars == <<api, input, required, canonical>>
diffVars == <<source, reference, includeNew, changes, affected, edits>>
roundVars == <<fileMap, mutated, roundTrip>>
writeVars == <<disk, before, managed, remoteComponents, threw>>
cmdVars == <<options, requests, batch, phoneBatch, log, outcome, phones>>
pageVars == <<limit, cursor, pageRequests, pages, results>>
markVars == <<markdownBody, navigation, resolved>>
vars == <<pc, keepVars, canonVars, diffVars, roundVars, writeVars, cmdVars, pageVars, markVars,
          testApi>>

(***************************************************************************)
(* The values of the variables a specification does not use                *)
(***************************************************************************)
\* a CanonicalState (and the raw lists of the API) with no resource
EmptyState == [voiceAgents |-> <<>>, chatAgents |-> <<>>, llms |-> <<>>, conversationFlows |-> <<>>]

NoLocals ==
    [latestVoiceAgents |-> <<>>, latestChatAgents |-> <<>>, allLatestAgents |-> <<>>,
     requiredConversationFlows |-> <<>>, requiredLLMs |-> <<>>]

KeepIdle == items = <<>> /\ latest = <<>>

CanonIdle ==
    /\ api = EmptyState
    /\ input = EmptyState
    /\ required = NoLocals
    /\ canonical = EmptyState

\* BaseChanges with no change
NoChanges == [voiceAgents |-> <<>>, chatAgents |-> <<>>, llms |-> <<>>, flows |-> <<>>]

DiffIdle ==
    /\ source = EmptyState
    /\ reference = EmptyState
    /\ includeNew = FALSE
    /\ changes = NoChanges
    /\ affected = {}
    /\ edits = 0

RoundIdle ==
    /\ fileMap = <<>>
    /\ mutated = EmptyState
    /\ roundTrip = [ok |-> TRUE, state |-> EmptyState]

\* the two directories pull writes to, both without a file
NoFiles == [agents |-> <<>>, components |-> <<>>]

WriteIdle ==
    /\ disk = NoFiles
    /\ before = NoFiles
    /\ managed = [agents |-> [filter |-> FALSE, ids |-> {}], components |-> [filter |-> FALSE, ids |-> {}]]
    /\ remoteComponents = <<>>
    /\ threw = FALSE

\* no command is run
NoOptions == [command |-> "none", dryRun |-> FALSE, quiet |-> FALSE, yes |-> FALSE,
              tests |-> TRUE, dirty |-> FALSE, proceed |-> FALSE]
Running == [status |-> "running", ids |-> {}, exitCode |-> 0]

\* no cursor yet: both options are undefined
NoCursor == [pagination_key |-> "", pagination_key_version |-> -1]

PageIdle ==
    /\ limit = 0
    /\ cursor = NoCursor
    /\ pageRequests = <<>>
    /\ pages = <<>>
    /\ results = <<>>

MarkIdle ==
    /\ markdownBody = <<>>
    /\ navigation = <<>>
    /\ resolved = [ok |-> TRUE, value |-> <<>>]

\* the account has no test case: every list request is answered 404
TestsIdle == testApi = <<>>

CmdIdle ==
    /\ options = NoOptions
    /\ requests = <<>>
    /\ batch = <<>>
    /\ phoneBatch = <<>>
    /\ log = <<>>
    /\ outcome = Running
    /\ phones = <<>>

(***************************************************************************)
(* Generic helpers on records and sequences                                *)
(***************************************************************************)
Has(obj, key) == key \in DOMAIN obj

Range(seq) == {seq[i] : i \in 1..Len(seq)}

\* obj with `key` set to `val` (added when missing): obj[key] = val
SetKey(obj, key, val) ==
    [k \in (DOMAIN obj) \cup {key} |-> IF k = key THEN val ELSE obj[k]]

\* R.omit(obj, keys), and the rest pattern `{ a, b, ...rest }`
Omit(obj, keys) == [k \in (DOMAIN obj) \ keys |-> obj[k]]

\* Array.prototype.filter with the predicate given as a set of kept indices
RECURSIVE FilterIdx(_, _, _)
FilterIdx(seq, keep, i) ==
    IF i > Len(seq) THEN <<>>
    ELSE (IF i \in keep THEN <<seq[i]>> ELSE <<>>) \o FilterIdx(seq, keep, i + 1)

(***************************************************************************)
(* keepLatestVersion                                                       *)
(***************************************************************************)
\* `item.version ?? 0`
VersionOrZero(item) == IF Has(item, "version") THEN item.version ELSE 0

\* the position in the Map's insertion order of the entry for `id`, or 0
MapIndex(map, idKey, id) ==
    IF \E i \in 1..Len(map) : map[i][idKey] = id
    THEN CHOOSE i \in 1..Len(map) : map[i][idKey] = id
    ELSE 0

\* the mutant: a tie replaces the retained entry (>= for >)
keepLatestStepTieLast(map, idKey, item) ==
    LET i == MapIndex(map, idKey, item[idKey]) IN
    IF i = 0 THEN Append(map, item)
    ELSE IF VersionOrZero(item) >= VersionOrZero(map[i])
         THEN [map EXCEPT ![i] = item]
         ELSE map

\* one iteration of the loop: map.set(id, item) keeps the key's first
\* insertion position and replaces its value
keepLatestStep(map, idKey, item) ==
    LET i == MapIndex(map, idKey, item[idKey]) IN
    IF i = 0 THEN Append(map, item)
    ELSE IF VersionOrZero(item) > VersionOrZero(map[i])
         THEN [map EXCEPT ![i] = item]
         ELSE map

RECURSIVE keepLatestLoop(_, _, _, _)
keepLatestLoop(list, idKey, map, i) ==
    IF i > Len(list) THEN map
    ELSE keepLatestLoop(list, idKey, keepLatestStep(map, idKey, list[i]), i + 1)

\* returns [...map.values()]
keepLatestVersion(list, idKey) == keepLatestLoop(list, idKey, <<>>, 1)

(***************************************************************************)
(* canonicalizeFromApi and getRemoteState                                  *)
(***************************************************************************)
\* `null` as the value of a nullable numeric field (response_engine.version)
Null == -1

\* `a === b` for two optional fields: undefined === undefined, else same value
StrictEq(a, b, key) ==
    IF Has(a, key) /\ Has(b, key) THEN a[key] = b[key]
    ELSE ~Has(a, key) /\ ~Has(b, key)

\* flowKey / llmKey: the string `${id}:${v}`, v being a number or undefined
engineKey(id, holder) ==
    IF Has(holder, "version") /\ holder.version # Null
    THEN [id |-> id, v |-> holder.version]
    ELSE [id |-> id]

\* `{ response_engine: a.response_engine, is_published: a.is_published }`
latestRef(a) ==
    IF Has(a, "is_published")
    THEN [response_engine |-> a.response_engine, is_published |-> a.is_published]
    ELSE [response_engine |-> a.response_engine]

buildAllLatestAgents(latestVoiceAgents, latestChatAgents) ==
    [i \in 1..Len(latestVoiceAgents) |-> latestRef(latestVoiceAgents[i])] \o [i \in 1..Len(latestChatAgents) |-> latestRef(latestChatAgents[i])]

\* requiredFlowKeys / requiredLlmKeys
requiredKeys(allLatestAgents, type, idField) ==
    {engineKey(allLatestAgents[i].response_engine[idField], allLatestAgents[i].response_engine) :
        i \in {j \in 1..Len(allLatestAgents) : allLatestAgents[j].response_engine.type = type}}

\* the predicate of `allLatestAgents.some(...)`
someAgentNames(allLatestAgents, type, idField, res) ==
    \E i \in 1..Len(allLatestAgents) :
        LET a == allLatestAgents[i] IN
        /\ a.response_engine.type = type
        /\ a.response_engine[idField] = res[idField]
        /\ StrictEq(a.response_engine, res, "version")
        /\ StrictEq(a, res, "is_published")

\* the mutant: the publish-state / exact-version test of `some` is dropped
requiredResourcesKeyOnly(list, allLatestAgents, type, idField) ==
    FilterIdx(list,
        {i \in 1..Len(list) :
            engineKey(list[i][idField], list[i]) \in requiredKeys(allLatestAgents, type, idField)},
        1)

\* requiredConversationFlows / requiredLLMs: `list.filter(...)`
requiredResources(list, allLatestAgents, type, idField) ==
    FilterIdx(list,
        {i \in 1..Len(list) :
            /\ engineKey(list[i][idField], list[i]) \in requiredKeys(allLatestAgents, type, idField)
            /\ someAgentNames(allLatestAgents, type, idField, list[i])},
        1)

ReadonlyAgentFields ==
    {"agent_id", "version", "last_modification_timestamp", "is_published",
     "version_title", "version_description"}
ReadonlyLlmFields == {"llm_id", "version", "last_modification_timestamp", "is_published"}
ReadonlyFlowFields == {"conversation_flow_id", "version", "is_published"}

\* `({ <id>: _id, version, ...readonly, ...rest }) => ({ ...rest, _id, _version: version ?? 0 })`
stripReadonly(res, idField, readonly) ==
    SetKey(SetKey(Omit(res, readonly), "_id", res[idField]), "_version", VersionOrZero(res))

stripAgent(a) == stripReadonly(a, "agent_id", ReadonlyAgentFields)
stripLlm(l) == stripReadonly(l, "llm_id", ReadonlyLlmFields)
stripFlow(f) == stripReadonly(f, "conversation_flow_id", ReadonlyFlowFields)

\* the locals of canonicalizeFromApi
canonicalizeLocals(in) ==
    LET latestVoiceAgents == keepLatestVersion(in.voiceAgents, "agent_id")
        latestChatAgents == keepLatestVersion(in.chatAgents, "agent_id")
        allLatestAgents == buildAllLatestAgents(latestVoiceAgents, latestChatAgents)
    IN  [latestVoiceAgents |-> latestVoiceAgents,
         latestChatAgents |-> latestChatAgents,
         allLatestAgents |-> allLatestAgents,
         requiredConversationFlows |->
            requiredResources(in.conversationFlows, allLatestAgents,
                              "conversation-flow", "conversation_flow_id"),
         requiredLLMs |->
            requiredResources(in.llms, allLatestAgents, "retell-llm", "llm_id")]

canonicalizeFromApi(in) ==
    LET loc == canonicalizeLocals(in) IN
    [voiceAgents |-> [i \in 1..Len(loc.latestVoiceAgents) |-> stripAgent(loc.latestVoiceAgents[i])],
     chatAgents |-> [i \in 1..Len(loc.latestChatAgents) |-> stripAgent(loc.latestChatAgents[i])],
     llms |-> [i \in 1..Len(loc.requiredLLMs) |-> stripLlm(loc.requiredLLMs[i])],
     conversationFlows |-> [i \in 1..Len(loc.requiredConversationFlows) |-> stripFlow(loc.requiredConversationFlows[i])]]

\* `a.is_published` as a filter predicate (undefined is falsy)
isPublished(a) == Has(a, "is_published") /\ a.is_published

\* the agentIds option: null (no filter) or a list of ids
NoFilter == [filter |-> FALSE, ids |-> {}]
OnlyIds(S) == [filter |-> TRUE, ids |-> S]

\* the argument getRemoteState passes to canonicalizeFromApi
remoteInput(lists, draft, agentIds) ==
    LET pub(list) == IF draft THEN list
                     ELSE FilterIdx(list, {i \in 1..Len(list) : isPublished(list[i])}, 1)
        sel(list) == IF agentIds.filter
                     THEN FilterIdx(list, {i \in 1..Len(list) : list[i].agent_id \in agentIds.ids}, 1)
                     ELSE list
    IN  [voiceAgents |-> sel(pub(lists.voiceAgents)),
         chatAgents |-> sel(pub(lists.chatAgents)),
         llms |-> lists.llms,
         conversationFlows |-> lists.conversationFlows]

getRemoteState(lists, draft, agentIds) ==
    canonicalizeFromApi(remoteInput(lists, draft, agentIds))

(***************************************************************************)
(* microdiff, as computeChanges calls it, on values of the resource        *)
(* schemas: the keys of ArrayKeys hold arrays of objects, the keys of      *)
(* ObjectKeys hold objects, every other key holds a primitive (a number, a *)
(* string or a text).                                                      *)
(***************************************************************************)
ArrayKeys == {"nodes", "edges", "components"}
\* the keys that hold a text: a string, written as the sequence of its tokens
\* (words, " ", "\n", "---", a leading "file://")
TextKeys == {"general_prompt", "global_prompt", "text", "user_prompt"}
ObjectKeys == {"response_engine", "instruction", "display_position", "begin_tag_display_position"}

\* the enumeration order of `for (const key in obj)` over the keys modelled
KeyOrder ==
    <<"agent_name", "voice_id", "response_engine", "type", "llm_id", "conversation_flow_id",
      "version", "llm_websocket_url", "model", "general_prompt", "global_prompt", "nodes", "components",
      "id", "name", "instruction", "text", "edges", "destination_node_id",
      "display_position", "begin_tag_display_position", "x", "y", "_id", "_version",
      "user_prompt", "llm_model", "creation_timestamp", "user_modified_timestamp">>

keysOf(obj, isArray) ==
    IF isArray THEN [i \in 1..Len(obj) |-> i]
    ELSE FilterIdx(KeyOrder, {i \in 1..Len(KeyOrder) : KeyOrder[i] \in DOMAIN obj}, 1)

\* the path element of a key: `isObjArray ? +key : key` (array indices from 0,
\* written here as their decimal string)
pathOf(key, isArray) == IF isArray THEN ToString(key - 1) ELSE key

\* typeof value === "object" for the value under `key`
isObjectAt(key, isArray) == isArray \/ key \in ArrayKeys \/ key \in ObjectKeys

unshiftPath(diffs, p) == [i \in 1..Len(diffs) |-> [diffs[i] EXCEPT !.path = <<p>> \o @]]

RECURSIVE diff(_, _, _)
RECURSIVE diffOldKeys(_, _, _, _, _)

\* the first loop of diff: REMOVE, recursion, CHANGE
diffOldKeys(obj, newObj, isArray, keys, i) ==
    IF i > Len(keys) THEN <<>>
    ELSE
        LET key == keys[i]
            p == pathOf(key, isArray)
            here ==
                IF key \notin DOMAIN newObj
                THEN <<[type |-> "REMOVE", path |-> <<p>>, oldValue |-> obj[key]]>>
                ELSE IF isObjectAt(key, isArray)
                THEN unshiftPath(diff(obj[key], newObj[key], ~isArray /\ key \in ArrayKeys), p)
                ELSE IF obj[key] # newObj[key]
                THEN <<[type |-> "CHANGE", path |-> <<p>>, value |-> newObj[key],
                        oldValue |-> obj[key]]>>
                ELSE <<>>
        IN  here \o diffOldKeys(obj, newObj, isArray, keys, i + 1)

\* the second loop of diff: CREATE for the keys of newObj that obj lacks
diffNewKeys(obj, newObj, isArray) ==
    LET keys == keysOf(newObj, isArray)
        fresh == FilterIdx(keys, {i \in 1..Len(keys) : keys[i] \notin DOMAIN obj}, 1)
    IN  [i \in 1..Len(fresh) |->
            [type |-> "CREATE", path |-> <<pathOf(fresh[i], isArray)>>, value |-> newObj[fresh[i]]]]

diff(obj, newObj, isArray) ==
    diffOldKeys(obj, newObj, isArray, keysOf(obj, isArray), 1) \o diffNewKeys(obj, newObj, isArray)

(***************************************************************************)
(* computeChanges                                                          *)
(***************************************************************************)
\* `new Map(list.map((r) => [r._id, r])).get(id)`: the last entry of that id
\* (0 when there is none)
refIndex(list, id) ==
    IF \E i \in 1..Len(list) : list[i]._id = id
    THEN CHOOSE i \in 1..Len(list) :
            /\ list[i]._id = id
            /\ \A j \in 1..Len(list) : list[j]._id = id => j <= i
    ELSE 0

\* `agent.agent_name ?? agent._id`
agentChangeName(agent) == IF Has(agent, "agent_name") THEN agent.agent_name ELSE agent._id
resourceChangeName(res) == res._id

\* the mutant: the response engine is compared for every agent
agentOmitFieldsKeepEngine(agent) == {"_id", "_version"}

\* omitFields of an agent
agentOmitFields(agent) ==
    IF agent.response_engine.type = "custom-llm"
    THEN {"_id", "_version"}
    ELSE {"_id", "_version", "response_engine"}

\* the mutant: the version of an LLM or a flow is compared
resourceOmitFieldsKeepVersion(res) == {"_id"}

\* the fields omitted from an LLM and from a flow
resourceOmitFields(res) == {"_id", "_version"}

createChange(res, name) ==
    [id |-> res._id, name |-> name, current |-> res,
     differences |-> <<[type |-> "CREATE", path |-> <<>>, value |-> res]>>]

\* the mutant: new resources are reported whatever includeNew is
changeOfAlwaysNew(res, refList, incl, name, omitFields) ==
    LET r == refIndex(refList, res._id) IN
    IF r = 0
    THEN <<createChange(res, name)>>
    ELSE LET differences == diff(Omit(refList[r], omitFields), Omit(res, omitFields), FALSE) IN
         IF Len(differences) > 0
         THEN <<[id |-> res._id, name |-> name, current |-> res, differences |-> differences]>>
         ELSE <<>>

\* one iteration of a per-kind loop: the changes pushed for one source resource
changeOf(res, refList, incl, name, omitFields) ==
    LET r == refIndex(refList, res._id) IN
    IF r = 0
    THEN IF incl THEN <<createChange(res, name)>> ELSE <<>>
    ELSE LET differences == diff(Omit(refList[r], omitFields), Omit(res, omitFields), FALSE) IN
         IF Len(differences) > 0
         THEN <<[id |-> res._id, name |-> name, current |-> res, differences |-> differences]>>
         ELSE <<>>

RECURSIVE agentChanges(_, _, _, _)
agentChanges(list, refList, incl, i) ==
    IF i > Len(list) THEN <<>>
    ELSE changeOf(list[i], refList, incl, agentChangeName(list[i]), agentOmitFields(list[i]))
         \o agentChanges(list, refList, incl, i + 1)

RECURSIVE resourceChanges(_, _, _, _)
resourceChanges(list, refList, incl, i) ==
    IF i > Len(list) THEN <<>>
    ELSE changeOf(list[i], refList, incl, resourceChangeName(list[i]), resourceOmitFields(list[i]))
         \o resourceChanges(list, refList, incl, i + 1)

\* the mutant: the loops run over the reference state
computeChangesOfReference(src, ref, incl) ==
    [voiceAgents |-> agentChanges(ref.voiceAgents, src.voiceAgents, TRUE, 1),
     chatAgents |-> agentChanges(ref.chatAgents, src.chatAgents, TRUE, 1),
     llms |-> resourceChanges(ref.llms, src.llms, TRUE, 1),
     flows |-> resourceChanges(ref.conversationFlows, src.conversationFlows, TRUE, 1)]

\* the four loops over the source state
computeChanges(src, ref, incl) ==
    [voiceAgents |-> agentChanges(src.voiceAgents, ref.voiceAgents, incl, 1),
     chatAgents |-> agentChanges(src.chatAgents, ref.chatAgents, incl, 1),
     llms |-> resourceChanges(src.llms, ref.llms, incl, 1),
     flows |-> resourceChanges(src.conversationFlows, ref.conversationFlows, incl, 1)]

(***************************************************************************)
(* findAffectedAgentIds                                                    *)
(***************************************************************************)
changedIds(list) == {list[i].id : i \in 1..Len(list)}

\* the agents of the state that the loop adds
dependentAgentIds(chg, agents) ==
    {agents[i]._id : i \in {j \in 1..Len(agents) :
        \/ /\ agents[j].response_engine.type = "retell-llm"
           /\ agents[j].response_engine.llm_id \in changedIds(chg.llms)
        \/ /\ agents[j].response_engine.type = "conversation-flow"
           /\ agents[j].response_engine.conversation_flow_id \in changedIds(chg.flows)}}

\* the mutant: the conversation-flow dependency is not followed
findAffectedAgentIdsLlmOnly(chg, state) ==
    changedIds(chg.voiceAgents) \cup changedIds(chg.chatAgents)
    \cup LET agents == state.voiceAgents \o state.chatAgents IN
         {agents[i]._id : i \in {j \in 1..Len(agents) :
            /\ agents[j].response_engine.type = "retell-llm"
            /\ agents[j].response_engine.llm_id \in changedIds(chg.llms)}}

findAffectedAgentIds(chg, state) ==
    changedIds(chg.voiceAgents) \cup changedIds(chg.chatAgents)
    \cup dependentAgentIds(chg, state.voiceAgents \o state.chatAgents)

(***************************************************************************)
(* Strings that the program takes apart (ids, display names, node types)   *)
(* are spelled out as sequences of one-character strings; paths and file   *)
(* names are sequences of such characters and of whole tokens ("/", ".md") *)
(***************************************************************************)
FILE_HASH_LENGTH == 6

LowerSeq ==
    <<"a", "b", "c", "d", "e", "f", "g", "h", "i", "j", "k", "l", "m",
      "n", "o", "p", "q", "r", "s", "t", "u", "v", "w", "x", "y", "z">>
UpperSeq ==
    <<"A", "B", "C", "D", "E", "F", "G", "H", "I", "J", "K", "L", "M",
      "N", "O", "P", "Q", "R", "S", "T", "U", "V", "W", "X", "Y", "Z">>
DigitChars == {"0", "1", "2", "3", "4", "5", "6", "7", "8", "9"}
LowerChars == Range(LowerSeq)
UpperChars == Range(UpperSeq)
SpaceChars == {" ", "\n"}

\* the characters of the strings of the universe
Spelling ==
    [s \in {"a1", "agent_2", "c1", "l1", "f1", "n1", "n2", "k1", "k2", "Bot", "My Bot", "Intake",
            "Chat", "conversation", "Start"} |->
        CASE s = "a1" -> <<"a", "1">>
          [] s = "agent_2" -> <<"a", "g", "e", "n", "t", "_", "2">>
          [] s = "c1" -> <<"c", "1">>
          [] s = "l1" -> <<"l", "1">>
          [] s = "f1" -> <<"f", "1">>
          [] s = "n1" -> <<"n", "1">>
          [] s = "n2" -> <<"n", "2">>
          [] s = "k1" -> <<"k", "1">>
          [] s = "k2" -> <<"k", "2">>
          [] s = "Intake" -> <<"I", "n", "t", "a", "k", "e">>
          [] s = "Bot" -> <<"B", "o", "t">>
          [] s = "Chat" -> <<"C", "h", "a", "t">>
          [] s = "My Bot" -> <<"M", "y", " ", "B", "o", "t">>
          [] s = "conversation" -> <<"c", "o", "n", "v", "e", "r", "s", "a", "t", "i", "o", "n">>
          [] s = "Start" -> <<"S", "t", "a", "r", "t">>]
chars(s) == Spelling[s]

\* `str.slice(-n)`
sliceLast(cs, n) == IF Len(cs) <= n THEN cs ELSE SubSeq(cs, Len(cs) - n + 1, Len(cs))

toLowerChar(c) ==
    IF c \in UpperChars THEN LowerSeq[CHOOSE i \in 1..Len(UpperSeq) : UpperSeq[i] = c] ELSE c

\* .replace(/\s+/g, "_")
RECURSIVE spacesToUnderscore(_, _)
spacesToUnderscore(cs, i) ==
    IF i > Len(cs) THEN <<>>
    ELSE (IF cs[i] \in SpaceChars
          THEN (IF i > 1 /\ cs[i - 1] \in SpaceChars THEN <<>> ELSE <<"_">>)
          ELSE <<cs[i]>>)
         \o spacesToUnderscore(cs, i + 1)

\* .replace(/([a-z0-9])([A-Z])/g, "$1_$2")
RECURSIVE splitCamel(_, _)
splitCamel(cs, i) ==
    IF i > Len(cs) THEN <<>>
    ELSE <<cs[i]>>
         \o (IF i < Len(cs) /\ cs[i] \in LowerChars \cup DigitChars /\ cs[i + 1] \in UpperChars
             THEN <<"_">> ELSE <<>>)
         \o splitCamel(cs, i + 1)

\* .replace(/[^a-z0-9_]/gi, "")
keepWordChars(cs) ==
    FilterIdx(cs, {i \in 1..Len(cs) : cs[i] \in LowerChars \cup UpperChars \cup DigitChars \cup {"_"}}, 1)

\* .replace(/_+/g, "_")
collapseUnderscores(cs) ==
    FilterIdx(cs, {i \in 1..Len(cs) : ~(cs[i] = "_" /\ i > 1 /\ cs[i - 1] = "_")}, 1)

\* .replace(/^_|_$/g, "")
stripUnderscores(cs) ==
    FilterIdx(cs, {i \in 1..Len(cs) : ~(cs[i] = "_" /\ (i = 1 \/ i = Len(cs)))}, 1)

toSnakeCase(cs) ==
    LET a == splitCamel(spacesToUnderscore(cs, 1), 1)
        b == keepWordChars(a)
        c == [i \in 1..Len(b) |-> toLowerChar(b[i])]
    IN  stripUnderscores(collapseUnderscores(c))

\* the mutant: the directory name carries no id suffix
getAgentDirNameNoHash(agent) ==
    toSnakeCase(chars(IF Has(agent, "agent_name") THEN agent.agent_name ELSE agent._id))

getAgentDirName(agent) ==
    toSnakeCase(chars(IF Has(agent, "agent_name") THEN agent.agent_name ELSE agent._id))
    \o <<"_">> \o sliceLast(chars(agent._id), FILE_HASH_LENGTH)

(***************************************************************************)
(* Markdown files: readMarkdown, writeMarkdown                             *)
(***************************************************************************)
\* a file content: the format it was written in and what a parser reads back
MarkdownFile(tokens) == [format |-> "md", body |-> tokens]
YamlFile(doc) == [format |-> "yaml", body |-> doc]
JsonFile(doc) == [format |-> "json", body |-> doc]

\* `!content`: the empty string (a written YAML or JSON document never is)
isEmptyContent(content) == content.format = "md" /\ Len(content.body) = 0

\* String.prototype.trim
RECURSIVE trimStart(_)
trimStart(t) == IF Len(t) > 0 /\ t[1] \in SpaceChars THEN trimStart(Tail(t)) ELSE t
RECURSIVE trimEnd(_)
trimEnd(t) == IF Len(t) > 0 /\ t[Len(t)] \in SpaceChars THEN trimEnd(SubSeq(t, 1, Len(t) - 1)) ELSE t
trim(t) == trimEnd(trimStart(t))

\* formatWithPrettier(text, { parser: "markdown" }): surrounding blank space
\* goes, a text that is not empty ends with one newline
formatMarkdown(t) == IF Len(trim(t)) = 0 THEN <<>> ELSE trim(t) \o <<"\n">>

startsWithToken(t, tok) == Len(t) > 0 /\ t[1] = tok

\* the tokens after the second "---" (`const [, frontmatter, ...rest] =
\* trimmed.split("---")` then `rest.join("---")`)
afterSecondBreak(t) ==
    LET breaks == {i \in 1..Len(t) : t[i] = "---"} IN
    IF Cardinality(breaks) < 2 THEN <<>>
    ELSE LET first == CHOOSE i \in breaks : \A j \in breaks : i <= j
             second == CHOOSE i \in breaks \ {first} : \A j \in breaks \ {first} : i <= j
         IN  SubSeq(t, second + 1, Len(t))

\* the body readMarkdown returns
readMarkdownBody(tokens) ==
    LET trimmed == trim(tokens) IN
    IF ~startsWithToken(trimmed, "---")
    THEN formatMarkdown(trimmed)
    ELSE formatMarkdown(trim(afterSecondBreak(trimmed)))

\* writeMarkdown(body, frontmatter), frontmatter given as the tokens of its YAML
\* (none: no frontmatter)
writeMarkdown(body, frontmatter) ==
    IF Len(frontmatter) = 0
    THEN MarkdownFile(trim(formatMarkdown(body)))
    ELSE MarkdownFile(trim(<<"\n", "---", "\n">> \o trim(frontmatter) \o <<"\n", "---", "\n", "\n">>
                           \o formatMarkdown(body) \o <<"\n">>))

(***************************************************************************)
(* serializeState: the file map of a canonical state.  The file map is the *)
(* sequence of its entries in insertion order; the nodes of the state's    *)
(* flows are rewritten in place while files are produced.                  *)
(***************************************************************************)
\* files[path] = content
putFile(files, path, content) ==
    IF \E i \in 1..Len(files) : files[i].path = path
    THEN [i \in 1..Len(files) |-> IF files[i].path = path THEN [files[i] EXCEPT !.content = content] ELSE files[i]]
    ELSE Append(files, [path |-> path, content |-> content])

\* path.join(agentDirPath, name)
joinPath(dir, rel) == dir \o <<"/">> \o rel

\* `if (config.general_prompt)`: the key is there and its text is not empty
isTruthyText(obj, key) == Has(obj, key) /\ Len(obj[key]) > 0

\* coordinates are counted in halves (the integer h stands for h/2), so that
\* Math.round has something to round: Math.round(h/2), in halves
mathRound(h) == ((h + 1) \div 2) * 2
roundPos(p) == [x |-> mathRound(p.x), y |-> mathRound(p.y)]

\* a prompt moved to a markdown file and replaced by its placeholder
extractPrompt(acc, config, dir, key, fileName) ==
    IF isTruthyText(config, key)
    THEN [files |-> putFile(acc.files, joinPath(dir, <<fileName>>), writeMarkdown(config[key], <<>>)),
          config |-> SetKey(config, key, <<"file://", "./", fileName>>)]
    ELSE [files |-> acc.files, config |-> config]

\* the retell-llm branch of serializeResponseEngine
serializeLlm(agent, dir, acc) ==
    LET idx == refIndex(acc.llms, agent.response_engine.llm_id) IN
    IF idx = 0 THEN acc
    ELSE LET llmConfig == Omit(acc.llms[idx], {"_id", "_version"})
             ex == extractPrompt(acc, llmConfig, dir, "general_prompt", "general_prompt.md")
         IN  [acc EXCEPT !.files = putFile(ex.files, joinPath(dir, <<"llm.yaml">>), YamlFile(ex.config))]

hasName(n) == Has(n, "name") /\ n.name # ""

\* nodeNameById.get(id): the name of the last named node of that id ("" for none)
nodeNameById(nodes, id) ==
    LET named == {i \in 1..Len(nodes) : Has(nodes[i], "id") /\ nodes[i].id = id /\ hasName(nodes[i])} IN
    IF named = {} THEN "" ELSE nodes[CHOOSE i \in named : \A j \in named : j <= i].name

edgesOf(n) == IF Has(n, "edges") THEN n.edges ELSE <<>>

\* incomingEdges.get(id) ?? []: the names of the nodes with an edge to id
RECURSIVE incomingEdges(_, _, _)
incomingEdges(nodes, id, i) ==
    IF i > Len(nodes) THEN <<>>
    ELSE LET es == edgesOf(nodes[i])
             hits == FilterIdx(es, {k \in 1..Len(es) : Has(es[k], "destination_node_id")
                                                        /\ es[k].destination_node_id = id}, 1)
         IN  (IF hasName(nodes[i]) THEN [k \in 1..Len(hits) |-> nodes[i].name] ELSE <<>>)
             \o incomingEdges(nodes, id, i + 1)

\* the names of the nodes the node's edges lead to
nextNames(nodes, n) ==
    LET es == edgesOf(n)
        names == [k \in 1..Len(es) |->
                    IF Has(es[k], "destination_node_id")
                    THEN nodeNameById(nodes, es[k].destination_node_id) ELSE ""]
    IN  FilterIdx(names, {k \in 1..Len(names) : names[k] # ""}, 1)

\* the condition under which a node's prompt goes to a file of its own
isExtractable(n) ==
    /\ Has(n, "id")
    /\ n.type = "conversation"
    /\ Has(n, "instruction")
    /\ n.instruction.type = "prompt"
    /\ Has(n.instruction, "text")
    /\ ~startsWithToken(n.instruction.text, "file://")

\* `nodes/${nodeName}.md`, after the directory
nodeFileName(n) ==
    <<"nodes", "/">>
    \o (IF hasName(n) THEN toSnakeCase(chars(n.name)) ELSE chars(n.type))
    \o <<"_">> \o sliceLast(chars(n.id), FILE_HASH_LENGTH) \o <<".md">>

\* the YAML of the frontmatter { nodeId, flow }
nodeFrontmatter(nodes, n) ==
    <<"nodeId:", n.id>>
    \o (IF hasName(n)
        THEN <<"\n", "flow:">> \o incomingEdges(nodes, n.id, 1) \o <<n.name>> \o nextNames(nodes, n)
        ELSE <<>>)

\* the loop that extracts the node prompts: nodes[i..] of the flow, given the
\* files and the nodes as rewritten so far
RECURSIVE extractNodes(_, _, _, _)
extractNodes(files, nodes, dir, i) ==
    IF i > Len(nodes) THEN [files |-> files, nodes |-> nodes]
    ELSE IF isExtractable(nodes[i])
    THEN extractNodes(
            putFile(files, joinPath(dir, nodeFileName(nodes[i])),
                    writeMarkdown(nodes[i].instruction.text, nodeFrontmatter(nodes, nodes[i]))),
            [nodes EXCEPT ![i].instruction.text = <<"file://", "./">> \o nodeFileName(nodes[i])],
            dir, i + 1)
    ELSE extractNodes(files, nodes, dir, i + 1)

\* the loop that moves the node positions to positions.nodes
RECURSIVE extractPositions(_, _, _)
extractPositions(nodePositions, nodes, i) ==
    IF i > Len(nodes) THEN [positions |-> nodePositions, nodes |-> nodes]
    ELSE IF Has(nodes[i], "id") /\ Has(nodes[i], "display_position")
    THEN extractPositions(SetKey(nodePositions, nodes[i].id, roundPos(nodes[i].display_position)),
                          [nodes EXCEPT ![i] = Omit(@, {"display_position"})], i + 1)
    ELSE extractPositions(nodePositions, nodes, i + 1)

\* the loop that moves the begin-tag positions of embedded components to
\* positions.components
RECURSIVE extractComponentPositions(_, _, _)
extractComponentPositions(compPositions, comps, i) ==
    IF i > Len(comps) THEN compPositions
    ELSE IF hasName(comps[i]) /\ Has(comps[i], "begin_tag_display_position")
    THEN extractComponentPositions(
            SetKey(compPositions, comps[i].name, roundPos(comps[i].begin_tag_display_position)), comps, i + 1)
    ELSE extractComponentPositions(compPositions, comps, i + 1)

\* the components as the loop leaves them: `delete comp.begin_tag_display_position`
\* on those with a name and a position
stripComponentPositions(comps) ==
    [i \in 1..Len(comps) |->
        IF hasName(comps[i]) THEN Omit(comps[i], {"begin_tag_display_position"}) ELSE comps[i]]

\* the conversation-flow branch of serializeResponseEngine
serializeFlow(agent, dir, acc) ==
    LET idx == refIndex(acc.flows, agent.response_engine.conversation_flow_id) IN
    IF idx = 0 THEN acc
    ELSE LET flowConfig == Omit(acc.flows[idx], {"_id", "_version"})
             ex == extractPrompt(acc, flowConfig, dir, "global_prompt", "global_prompt.md")
             hasNodes == Has(flowConfig, "nodes")
             en == IF hasNodes THEN extractNodes(ex.files, flowConfig.nodes, dir, 1)
                   ELSE [files |-> ex.files, nodes |-> <<>>]
             ep == IF hasNodes THEN extractPositions(<<>>, en.nodes, 1)
                   ELSE [positions |-> <<>>, nodes |-> <<>>]
             hasBegin == Has(flowConfig, "begin_tag_display_position")
             hasComps == Has(flowConfig, "components")
             cp == IF hasComps THEN extractComponentPositions(<<>>, flowConfig.components, 1) ELSE <<>>
             positions ==
                (IF hasBegin
                 THEN SetKey(<<>>, "begin_tag", roundPos(flowConfig.begin_tag_display_position))
                 ELSE <<>>)
                @@ (IF DOMAIN ep.positions # {} THEN SetKey(<<>>, "nodes", ep.positions) ELSE <<>>)
                @@ (IF DOMAIN cp # {} THEN SetKey(<<>>, "components", cp) ELSE <<>>)
             withNodes == IF hasNodes THEN SetKey(ex.config, "nodes", ep.nodes) ELSE ex.config
             withComps == IF hasComps
                          THEN SetKey(withNodes, "components", stripComponentPositions(flowConfig.components))
                          ELSE withNodes
             toWrite == Omit(withComps, {"begin_tag_display_position"})
             f1 == IF DOMAIN positions # {}
                   THEN putFile(en.files, joinPath(dir, <<".positions.json">>), JsonFile(positions))
                   ELSE en.files
         IN  [acc EXCEPT
                !.files = putFile(f1, joinPath(dir, <<"conversation-flow.yaml">>), YamlFile(toWrite)),
                !.flows[idx] =
                    LET left == IF hasNodes THEN SetKey(@, "nodes", ep.nodes) ELSE @ IN
                    IF hasComps
                    THEN SetKey(left, "components", stripComponentPositions(flowConfig.components))
                    ELSE left]

serializeResponseEngine(agent, dir, acc) ==
    IF agent.response_engine.type = "retell-llm" THEN serializeLlm(agent, dir, acc)
    ELSE IF agent.response_engine.type = "conversation-flow" THEN serializeFlow(agent, dir, acc)
    ELSE acc

\* the body of the voice-agent loop and of the chat-agent loop
serializeAgent(agent, channel, acc) ==
    LET dir == getAgentDirName(agent)
        isCustom == agent.response_engine.type = "custom-llm"
        meta == [id |-> agent._id, version |-> agent._version, channel |-> channel,
                 response_engine |-> IF isCustom THEN [type |-> "custom-llm"] ELSE agent.response_engine]
        config == Omit(agent, {"_id", "_version", "response_engine"})
        configToWrite ==
            IF isCustom /\ Has(agent.response_engine, "llm_websocket_url")
            THEN SetKey(config, "llm_websocket_url", agent.response_engine.llm_websocket_url)
            ELSE config
        acc1 == [acc EXCEPT !.files = putFile(@, joinPath(dir, <<".agent.json">>), JsonFile(meta))]
        acc2 == serializeResponseEngine(agent, dir, acc1)
    IN  [acc2 EXCEPT !.files = putFile(@, joinPath(dir, <<"config.yaml">>), YamlFile(configToWrite))]

RECURSIVE serializeAgents(_, _, _, _)
serializeAgents(agents, channel, acc, i) ==
    IF i > Len(agents) THEN acc
    ELSE serializeAgents(agents, channel, serializeAgent(agents[i], channel, acc), i + 1)

\* the files returned, and the flows of the state as the call leaves them
serializeRun(state) ==
    LET acc0 == [files |-> <<>>, llms |-> state.llms, flows |-> state.conversationFlows]
        acc1 == serializeAgents(state.voiceAgents, "voice", acc0, 1)
    IN  serializeAgents(state.chatAgents, "chat", acc1, 1)

serializeState(state) == serializeRun(state).files

(***************************************************************************)
(* canonicalizeFromFiles: the canonical state of a file map, or the        *)
(* exception it ends with                                                  *)
(***************************************************************************)
\* fp.split("/")[0]
dirOf(path) ==
    IF \E i \in 1..Len(path) : path[i] = "/"
    THEN SubSeq(path, 1, (CHOOSE i \in 1..Len(path) : path[i] = "/" /\ \A j \in 1..(i - 1) : path[j] # "/") - 1)
    ELSE path

\* the keys of R.groupBy, in the order of their first file
RECURSIVE agentDirs(_, _)
agentDirs(files, i) ==
    IF i > Len(files) THEN <<>>
    ELSE (IF \E j \in 1..(i - 1) : dirOf(files[j].path) = dirOf(files[i].path)
          THEN <<>> ELSE <<dirOf(files[i].path)>>)
         \o agentDirs(files, i + 1)

\* fileMap[path] is a non-empty string
hasContent(files, path) ==
    \E i \in 1..Len(files) : files[i].path = path /\ ~isEmptyContent(files[i].content)
contentOf(files, path) == files[CHOOSE i \in 1..Len(files) : files[i].path = path].content

\* the response_engine variants the schema of .agent.json accepts
isValidMetaEngine(re) ==
    /\ Has(re, "type")
    /\ \/ re.type = "retell-llm" /\ Has(re, "llm_id") /\ (Has(re, "version") => re.version # Null)
       \/ re.type = "conversation-flow" /\ Has(re, "conversation_flow_id")
          /\ (Has(re, "version") => re.version # Null)
       \/ re.type = "custom-llm"

\* readJson(agentMetaFile, schema) does not throw
isValidMeta(content) ==
    /\ content.format = "json"
    /\ Has(content.body, "id")
    /\ Has(content.body, "version")
    /\ Has(content.body, "channel") => content.body.channel \in {"voice", "chat"}
    /\ Has(content.body, "response_engine")
    /\ isValidMetaEngine(content.body.response_engine)

\* the keys z.object keeps of each response_engine variant
metaEngineKeys(type) ==
    CASE type = "retell-llm" -> {"type", "llm_id", "version"}
      [] type = "conversation-flow" -> {"type", "conversation_flow_id", "version"}
      [] OTHER -> {"type"}

\* the value readJson(agentMetaFile, schema) returns
parseMeta(content) ==
    LET doc == content.body IN
    [id |-> doc.id, version |-> doc.version,
     channel |-> IF Has(doc, "channel") THEN doc.channel ELSE "voice",
     response_engine |->
        Omit(doc.response_engine, DOMAIN doc.response_engine \ metaEngineKeys(doc.response_engine.type))]

\* resolveValue, and the assignment `if (resolved) value[key] = resolved`
resolveText(t, files, dir) ==
    IF ~startsWithToken(t, "file://") THEN [ok |-> TRUE, value |-> t]
    ELSE LET rel == Tail(t)
             normalizedPath == IF startsWithToken(rel, "./") THEN Tail(rel) ELSE rel
             fullPath == joinPath(dir, normalizedPath)
         IN  IF ~hasContent(files, fullPath) THEN [ok |-> FALSE, value |-> t]
             ELSE LET body == readMarkdownBody(contentOf(files, fullPath).body) IN
                  [ok |-> TRUE, value |-> IF Len(body) > 0 THEN body ELSE t]

\* resolveFilePlaceholders(value, resolveFileContent): the value it leaves, and
\* whether it returned (ok) or threw "File not found"
RECURSIVE resolveFilePlaceholders(_, _, _, _)
resolveFilePlaceholders(value, isArray, files, dir) ==
    IF isArray
    THEN LET sub == [i \in 1..Len(value) |-> resolveFilePlaceholders(value[i], FALSE, files, dir)] IN
         [ok |-> \A i \in 1..Len(value) : sub[i].ok, value |-> [i \in 1..Len(value) |-> sub[i].value]]
    ELSE LET sub(k) ==
                IF k \in TextKeys THEN resolveText(value[k], files, dir)
                ELSE IF k \in ArrayKeys \cup ObjectKeys
                THEN resolveFilePlaceholders(value[k], k \in ArrayKeys, files, dir)
                ELSE [ok |-> TRUE, value |-> value[k]]
         IN  [ok |-> \A k \in DOMAIN value : sub(k).ok, value |-> [k \in DOMAIN value |-> sub(k).value]]

\* the loop that merges positions.nodes back into the nodes
mergeNodePositions(nodes, nodePositions) ==
    [i \in 1..Len(nodes) |->
        IF Has(nodes[i], "id") /\ Has(nodePositions, nodes[i].id)
        THEN SetKey(nodes[i], "display_position", nodePositions[nodes[i].id])
        ELSE nodes[i]]

\* the loop that merges positions.components back into the components
mergeComponentPositions(comps, compPositions) ==
    [i \in 1..Len(comps) |->
        IF hasName(comps[i]) /\ Has(compPositions, comps[i].name)
        THEN SetKey(comps[i], "begin_tag_display_position", compPositions[comps[i].name])
        ELSE comps[i]]

\* the merge of .positions.json into the flow config
mergePositions(flowConfig, files, dir) ==
    IF ~hasContent(files, joinPath(dir, <<".positions.json">>)) THEN flowConfig
    ELSE LET positions == contentOf(files, joinPath(dir, <<".positions.json">>)).body
             c1 == IF Has(positions, "begin_tag")
                   THEN SetKey(flowConfig, "begin_tag_display_position", positions.begin_tag)
                   ELSE flowConfig
             c2 == IF Has(positions, "nodes") /\ Has(c1, "nodes")
                   THEN SetKey(c1, "nodes", mergeNodePositions(c1.nodes, positions.nodes))
                   ELSE c1
         IN  IF Has(positions, "components") /\ Has(c2, "components")
             THEN SetKey(c2, "components", mergeComponentPositions(c2.components, positions.components))
             ELSE c2

\* a resource read from <dir>/<name>, placeholders resolved: the entries pushed
\* (none when the file is missing) and whether the reading returned
readResource(files, dir, name, id, version, isFlow) ==
    IF ~hasContent(files, joinPath(dir, <<name>>)) THEN [ok |-> TRUE, pushed |-> <<>>]
    ELSE LET r == resolveFilePlaceholders(contentOf(files, joinPath(dir, <<name>>)).body, FALSE, files, dir)
             config == IF isFlow THEN mergePositions(r.value, files, dir) ELSE r.value
         IN  [ok |-> r.ok, pushed |-> <<SetKey(SetKey(config, "_id", id), "_version", version)>>]

\* `agentMeta.response_engine.version ?? 0`
engineVersionOrZero(re) == IF Has(re, "version") THEN re.version ELSE 0

\* one iteration of the loop over the agent directories
canonicalizeDir(files, dir, acc) ==
    LET metaPath == joinPath(dir, <<".agent.json">>)
        configPath == joinPath(dir, <<"config.yaml">>)
    IN
    IF ~hasContent(files, metaPath) THEN acc
    ELSE IF ~isValidMeta(contentOf(files, metaPath)) THEN [acc EXCEPT !.ok = FALSE]
    ELSE IF ~hasContent(files, configPath) THEN acc
    ELSE
        LET agentMeta == parseMeta(contentOf(files, metaPath))
            re == agentMeta.response_engine
            cfg == resolveFilePlaceholders(contentOf(files, configPath).body, FALSE, files, dir)
            llm == IF re.type = "retell-llm"
                   THEN readResource(files, dir, "llm.yaml", re.llm_id, engineVersionOrZero(re), FALSE)
                   ELSE [ok |-> TRUE, pushed |-> <<>>]
            flow == IF re.type = "conversation-flow"
                    THEN readResource(files, dir, "conversation-flow.yaml", re.conversation_flow_id,
                                      engineVersionOrZero(re), TRUE)
                    ELSE [ok |-> TRUE, pushed |-> <<>>]
            responseEngine ==
                IF re.type = "custom-llm"
                THEN [type |-> "custom-llm",
                      llm_websocket_url |-> IF Has(cfg.value, "llm_websocket_url")
                                            THEN cfg.value.llm_websocket_url ELSE ""]
                ELSE re
            cleanConfig == Omit(cfg.value, {"version_title", "version_description", "llm_websocket_url"})
            canonicalAgent ==
                SetKey(SetKey(SetKey(cleanConfig, "_id", agentMeta.id), "_version", agentMeta.version),
                       "response_engine", responseEngine)
        IN  IF ~(cfg.ok /\ llm.ok /\ flow.ok) THEN [acc EXCEPT !.ok = FALSE]
            ELSE [ok |-> TRUE,
                  state |->
                    [voiceAgents |-> acc.state.voiceAgents
                        \o (IF agentMeta.channel = "chat" THEN <<>> ELSE <<canonicalAgent>>),
                     chatAgents |-> acc.state.chatAgents
                        \o (IF agentMeta.channel = "chat" THEN <<canonicalAgent>> ELSE <<>>),
                     llms |-> acc.state.llms \o llm.pushed,
                     conversationFlows |-> acc.state.conversationFlows \o flow.pushed]]

RECURSIVE canonicalizeDirs(_, _, _, _)
canonicalizeDirs(files, dirs, acc, i) ==
    IF i > Len(dirs) \/ ~acc.ok THEN acc
    ELSE canonicalizeDirs(files, dirs, canonicalizeDir(files, dirs[i], acc), i + 1)

\* [ok |-> TRUE, state |-> the state returned], or ok = FALSE: an exception
canonicalizeFromFiles(files) ==
    canonicalizeDirs(files, agentDirs(files, 1), [ok |-> TRUE, state |-> EmptyState], 1)

(***************************************************************************)
(* Shared components: getRemoteComponents, serializeComponents             *)
(***************************************************************************)
getComponentDirName(component) ==
    toSnakeCase(chars(IF Has(component, "name") THEN component.name ELSE component._id))
    \o <<"_">> \o sliceLast(chars(component._id), FILE_HASH_LENGTH)

\* the list endpoint's components, filtered to componentIds, in canonical form
getRemoteComponents(list, componentIds) ==
    LET filtered == IF componentIds.filter
                    THEN FilterIdx(list, {i \in 1..Len(list) :
                                            list[i].conversation_flow_component_id \in componentIds.ids}, 1)
                    ELSE list
    IN  [i \in 1..Len(filtered) |->
            SetKey(SetKey(Omit(filtered[i], {"conversation_flow_component_id", "user_modified_timestamp"}),
                          "_id", filtered[i].conversation_flow_component_id),
                   "_timestamp", filtered[i].user_modified_timestamp)]

\* the body of the loop of serializeComponents
serializeComponent(component, files) ==
    LET dir == getComponentDirName(component)
        config == Omit(component, {"_id", "_timestamp", "linked_conversation_flow_ids"})
        isLinked == Has(component, "linked_conversation_flow_ids")
                    /\ Len(component.linked_conversation_flow_ids) > 0
        meta == IF isLinked
                THEN [id |-> component._id, linked_flow_ids |-> component.linked_conversation_flow_ids]
                ELSE [id |-> component._id]
        f0 == putFile(files, joinPath(dir, <<".component.json">>), JsonFile(meta))
        hasNodes == Has(config, "nodes")
        en == IF hasNodes THEN extractNodes(f0, config.nodes, dir, 1)
              ELSE [files |-> f0, nodes |-> <<>>]
        ep == IF hasNodes THEN extractPositions(<<>>, en.nodes, 1)
              ELSE [positions |-> <<>>, nodes |-> <<>>]
        cp == IF Has(config, "components") THEN extractComponentPositions(<<>>, config.components, 1)
              ELSE <<>>
        positions ==
            (IF Has(config, "begin_tag_display_position")
             THEN SetKey(<<>>, "begin_tag", roundPos(config.begin_tag_display_position))
             ELSE <<>>)
            @@ (IF DOMAIN ep.positions # {} THEN SetKey(<<>>, "nodes", ep.positions) ELSE <<>>)
            @@ (IF DOMAIN cp # {} THEN SetKey(<<>>, "components", cp) ELSE <<>>)
        withNodes == IF hasNodes THEN SetKey(config, "nodes", ep.nodes) ELSE config
        withComps ==
            IF Has(config, "components")
            THEN SetKey(withNodes, "components", stripComponentPositions(config.components))
            ELSE withNodes
        toWrite == Omit(withComps, {"begin_tag_display_position"})
        f1 == IF DOMAIN positions # {}
              THEN putFile(en.files, joinPath(dir, <<".positions.json">>), JsonFile(positions))
              ELSE en.files
    IN  putFile(f1, joinPath(dir, <<"config.yaml">>), YamlFile(toWrite))

RECURSIVE serializeComponentsFrom(_, _, _)
serializeComponentsFrom(components, files, i) ==
    IF i > Len(components) THEN files
    ELSE serializeComponentsFrom(components, serializeComponent(components[i], files), i + 1)

serializeComponents(components) == serializeComponentsFrom(components, <<>>, 1)

(***************************************************************************)
(* writeState and writeComponents: the file map is written to the          *)
(* directory, then the directories found there are cleaned.  A directory   *)
(* is the sequence of the files under it, each a path and a content, the   *)
(* paths relative to it; a sub-directory is there when a file lies in it.  *)
(***************************************************************************)
\* the path has a directory part: it lies in a sub-directory
isNested(path) == \E i \in 1..Len(path) : path[i] = "/"

isFile(tree, path) == \E i \in 1..Len(tree) : tree[i].path = path

\* the loop that writes the entries of the file map, whose paths are distinct:
\* a file that is there is overwritten, the others are created
writeFiles(tree, files) ==
    [i \in 1..Len(tree) |->
        IF isFile(files, tree[i].path)
        THEN [path |-> tree[i].path, content |-> contentOf(files, tree[i].path)]
        ELSE tree[i]]
    \o FilterIdx(files, {j \in 1..Len(files) : ~isFile(tree, files[j].path)}, 1)

writtenFiles(files) == {files[i].path : i \in 1..Len(files)}
writtenDirs(files) == {dirOf(files[i].path) : i \in 1..Len(files)}

\* fs.readdir, its directories: those of `listing`, the order in which the
\* file system lists names, that are there
existingDirs(tree, listing) ==
    FilterIdx(listing,
              {k \in 1..Len(listing) :
                  \E i \in 1..Len(tree) : isNested(tree[i].path) /\ dirOf(tree[i].path) = listing[k]}, 1)

\* the check that leaves every directory to the clean-up
managedCheckNone(tree, dir, ids, metaName) == "clean"

\* the partial-sync check on a directory: "skip" for `continue`, "throw" when
\* JSON.parse throws, "clean" when the directory goes on to the clean-up
managedCheck(tree, dir, ids, metaName) ==
    LET metaPath == joinPath(dir, <<metaName>>) IN
    IF ~ids.filter \/ ~isFile(tree, metaPath) THEN "clean"
    ELSE LET meta == contentOf(tree, metaPath) IN
         IF meta.format # "json" THEN "throw"
         ELSE IF ~Has(meta.body, "id") \/ meta.body.id \notin ids.ids THEN "skip"
         ELSE "clean"

\* the mutant: a directory that was written to is left as it is
cleanDirWholeOnly(tree, dir, files) ==
    IF dir \notin writtenDirs(files)
    THEN FilterIdx(tree, {i \in 1..Len(tree) : ~(isNested(tree[i].path) /\ dirOf(tree[i].path) = dir)}, 1)
    ELSE tree

\* the clean-up of one directory: removed when nothing was written to it,
\* else its files that were not written are removed
cleanDir(tree, dir, files) ==
    LET inDir == {i \in 1..Len(tree) : isNested(tree[i].path) /\ dirOf(tree[i].path) = dir} IN
    IF dir \notin writtenDirs(files)
    THEN FilterIdx(tree, (1..Len(tree)) \ inDir, 1)
    ELSE FilterIdx(tree, {i \in 1..Len(tree) : i \in inDir => tree[i].path \in writtenFiles(files)}, 1)

\* the clean-up loop, from the i-th directory on
RECURSIVE cleanDirs(_, _, _, _, _, _)
cleanDirs(tree, dirs, i, files, ids, metaName) ==
    IF i > Len(dirs) THEN [tree |-> tree, threw |-> FALSE]
    ELSE LET check == managedCheck(tree, dirs[i], ids, metaName) IN
         IF check = "throw" THEN [tree |-> tree, threw |-> TRUE]
         ELSE IF check = "skip" THEN cleanDirs(tree, dirs, i + 1, files, ids, metaName)
         ELSE CHOOSE done \in {cleanDirs(cleaned, dirs, i + 1, files, ids, metaName) :
                                   cleaned \in {cleanDir(tree, dirs[i], files)}} : TRUE

\* writeState on the agents directory `tree`
\* the files of the file map written, then the clean-up, given the file map
writeAndClean(tree, files, ids, listing, metaName) ==
    CHOOSE done \in {cleanDirs(written, existingDirs(written, listing), 1, files, ids, metaName) :
                        written \in {writeFiles(tree, files)}} : TRUE

writeState(tree, state, agentIds, listing) ==
    CHOOSE done \in {writeAndClean(tree, files, agentIds, listing, ".agent.json") :
                        files \in {serializeState(state)}} : TRUE

\* writeComponents on the components directory `tree`; the directory is not
\* there when it holds no file
writeComponents(tree, components, componentIds, listing) ==
    CHOOSE done \in {IF Len(tree) = 0 /\ Len(files) = 0 THEN [tree |-> tree, threw |-> FALSE]
                     ELSE writeAndClean(tree, files, componentIds, listing, ".component.json") :
                        files \in {serializeComponents(components)}} : TRUE

(***************************************************************************)
(* Test case definitions: the list endpoint, the tests directory of an     *)
(* agent directory, and the test-case changes of deploy                    *)
(***************************************************************************)
\* the answers of GET /list-test-case-definitions: a list that passes the
\* schema ("ok"), a body that does not ("invalid"), status 404 ("notfound"),
\* any other failure ("failed")
NotFound == [kind |-> "notfound", data |-> <<>>]

\* normalizeResponseEngine: undefined (here <<>>) for a custom LLM
normalizeResponseEngine(re) ==
    IF re.type = "retell-llm"
    THEN [type |-> "retell-llm", llm_id |-> re.llm_id] @@
         (IF Has(re, "version") THEN [version |-> re.version] ELSE <<>>)
    ELSE IF re.type = "conversation-flow"
    THEN [type |-> "conversation-flow", conversation_flow_id |-> re.conversation_flow_id] @@
         (IF Has(re, "version") THEN [version |-> re.version] ELSE <<>>)
    ELSE <<>>

\* the id the list request names
engineRef(engine) ==
    IF engine.type = "retell-llm" THEN engine.llm_id ELSE engine.conversation_flow_id

\* what the API answers for an engine
answerFor(answers, engine) ==
    IF engineRef(engine) \in DOMAIN answers THEN answers[engineRef(engine)] ELSE NotFound

\* the mutant: a body that fails the schema is returned as it is
getTestCaseDefinitionsUnchecked(answer) ==
    IF answer.kind = "failed" THEN [ok |-> FALSE, value |-> <<>>]
    ELSE [ok |-> TRUE, value |-> answer.data]

\* getTestCaseDefinitions: a 404 gives [], any other failure is thrown; a
\* body that fails the schema gives [], with a warning
getTestCaseDefinitions(answer) ==
    IF answer.kind = "failed" THEN [ok |-> FALSE, value |-> <<>>]
    ELSE IF answer.kind = "notfound" THEN [ok |-> TRUE, value |-> <<>>]
    ELSE IF answer.kind = "invalid" THEN [ok |-> TRUE, value |-> <<>>]
    ELSE [ok |-> TRUE, value |-> answer.data]

canonicalizeTestCases(testCases) ==
    [i \in 1..Len(testCases) |->
        SetKey(Omit(testCases[i], {"test_case_definition_id", "response_engine"}),
               "_id", testCases[i].test_case_definition_id)]

\* path.join(agentDirPath, "tests", name)
testsPath(dir, name) == joinPath(dir, <<"tests", "/">> \o name)
promptFileName(testCase) == toSnakeCase(chars(testCase.name)) \o <<"_prompt.md">>
configFileName(testCase) == toSnakeCase(chars(testCase.name)) \o <<".yaml">>

\* the path lies under the tests directory of `dir`
underTests(dir, path) ==
    LET prefix == joinPath(dir, <<"tests", "/">>) IN
    Len(path) > Len(prefix) /\ SubSeq(path, 1, Len(prefix)) = prefix

\* the loop of writeTestCases over the test cases, from the i-th on: the
\* prompt file and the config file of each, as entries path -> content
RECURSIVE testCaseFiles(_, _, _, _)
testCaseFiles(files, testCases, dir, i) ==
    IF i > Len(testCases) THEN files
    ELSE LET tc == testCases[i]
             config == Omit(tc, {"test_case_definition_id", "response_engine",
                                 "creation_timestamp", "user_modified_timestamp", "type"})
             withPrompt == putFile(files, testsPath(dir, promptFileName(tc)),
                                   writeMarkdown(tc.user_prompt, <<>>))
             withConfig == putFile(withPrompt, testsPath(dir, configFileName(tc)),
                                   YamlFile(SetKey(config, "user_prompt",
                                                   <<"file://", "./">> \o promptFileName(tc))))
         IN  testCaseFiles(withConfig, testCases, dir, i + 1)

\* writeTestCases: .tests.json and the files of the test cases are written,
\* then the files of the tests directory that were not written are removed
writeTestCases(tree, testCases, dir, engine) ==
    LET metadata == [response_engine |-> engine,
                     test_cases |-> [i \in 1..Len(testCases) |->
                                        [id |-> testCases[i].test_case_definition_id,
                                         name |-> testCases[i].name]]]
        files == testCaseFiles(<<[path |-> testsPath(dir, <<".tests.json">>),
                                  content |-> JsonFile(metadata)]>>, testCases, dir, 1)
        written == writeFiles(tree, files)
    IN  FilterIdx(written, {i \in 1..Len(written) :
                               underTests(dir, written[i].path) => isFile(files, written[i].path)}, 1)

\* `fs.rm(testsDir, { recursive: true, force: true })`
removeTests(tree, dir) ==
    FilterIdx(tree, {i \in 1..Len(tree) : ~underTests(dir, tree[i].path)}, 1)

\* the loop of fetchAndWriteTestCases over the agents, from the i-th on
RECURSIVE fetchAndWriteTestCases(_, _, _, _)
fetchAndWriteTestCases(tree, agents, answers, i) ==
    IF i > Len(agents) THEN tree
    ELSE LET dir == getAgentDirName(agents[i])
             engine == normalizeResponseEngine(agents[i].response_engine)
         IN  IF DOMAIN engine = {} THEN fetchAndWriteTestCases(tree, agents, answers, i + 1)
             ELSE LET fetched == getTestCaseDefinitions(answerFor(answers, engine)) IN
                  IF ~fetched.ok THEN fetchAndWriteTestCases(tree, agents, answers, i + 1)
                  ELSE IF Len(fetched.value) = 0
                  THEN fetchAndWriteTestCases(removeTests(tree, dir), agents, answers, i + 1)
                  ELSE fetchAndWriteTestCases(writeTestCases(tree, fetched.value, dir, engine),
                                              agents, answers, i + 1)

\* the loop of getLocalTestCases over the entries of .tests.json, from the
\* i-th on; an entry whose config file is missing is skipped
RECURSIVE readTestCases(_, _, _, _)
readTestCases(tree, dir, entries, i) ==
    IF i > Len(entries) THEN [ok |-> TRUE, value |-> <<>>]
    ELSE LET configPath == testsPath(dir, configFileName(entries[i]))
             rest == readTestCases(tree, dir, entries, i + 1)
         IN  IF ~isFile(tree, configPath) THEN rest
             ELSE LET config == resolveFilePlaceholders(contentOf(tree, configPath).body, FALSE,
                                                        tree, joinPath(dir, <<"tests">>))
                  IN  [ok |-> config.ok /\ rest.ok,
                       value |-> <<SetKey(config.value, "_id", entries[i].id)>> \o rest.value]

\* getLocalTestCases: [] without .tests.json
getLocalTestCases(tree, dir) ==
    IF ~isFile(tree, testsPath(dir, <<".tests.json">>)) THEN [ok |-> TRUE, value |-> <<>>]
    ELSE readTestCases(tree, dir, contentOf(tree, testsPath(dir, <<".tests.json">>)).body.test_cases, 1)

TestCaseMetadataFields == {"_id", "creation_timestamp", "user_modified_timestamp", "type"}

\* the object of a test case that deploy compares
comparableTestCase(tc) ==
    SetKey(Omit(tc, TestCaseMetadataFields), "user_prompt", trim(tc.user_prompt))

\* the changes deploy pushes for the local test cases of one agent, from the
\* i-th on, given the remote test cases; a test case the remote list does not
\* hold is skipped
RECURSIVE localTestCaseChanges(_, _, _)
localTestCaseChanges(localTestCases, remoteTestCases, i) ==
    IF i > Len(localTestCases) THEN <<>>
    ELSE LET localTC == localTestCases[i]
             r == refIndex(remoteTestCases, localTC._id)
             differences == IF r = 0 THEN <<>>
                            ELSE diff(comparableTestCase(remoteTestCases[r]),
                                      comparableTestCase(localTC), FALSE)
         IN  (IF Len(differences) > 0
              THEN <<[id |-> localTC._id, name |-> localTC.name, current |-> localTC,
                      differences |-> differences]>>
              ELSE <<>>)
             \o localTestCaseChanges(localTestCases, remoteTestCases, i + 1)

\* step 2b of deploy, the loop over the local agents from the i-th on: agents
\* on a custom LLM, agents without local test cases and agents whose remote
\* test cases cannot be fetched are skipped
RECURSIVE testCaseChanges(_, _, _, _)
testCaseChanges(agents, tree, answers, i) ==
    IF i > Len(agents) THEN <<>>
    ELSE LET engine == normalizeResponseEngine(agents[i].response_engine)
             rest == testCaseChanges(agents, tree, answers, i + 1)
         IN  IF DOMAIN engine = {} THEN rest
             ELSE LET localTestCases == getLocalTestCases(tree, getAgentDirName(agents[i])).value
                      fetched == getTestCaseDefinitions(answerFor(answers, engine))
                  IN  IF Len(localTestCases) = 0 \/ ~fetched.ok THEN rest
                      ELSE localTestCaseChanges(localTestCases,
                                                canonicalizeTestCases(fetched.value), 1) \o rest

(***************************************************************************)
(* deploy and publish: the batch of mutation calls and its report          *)
(***************************************************************************)
\* the mutant: the flag is ignored
dryRunIgnored(opts) == FALSE

\* `if (dryRun)`
isDryRun(opts) == opts.dryRun

\* totalChanges
countChanges(chg) ==
    Len(chg.voiceAgents) + Len(chg.chatAgents) + Len(chg.llms) + Len(chg.flows)
    + Len(chg.testCases)

\* the mutant: response_engine is sent for every agent
agentUpdateDataWithEngine(current) == Omit(current, {"_id", "_version"})

\* the body of an agent update: the readonly fields are left out, and
\* response_engine is sent only for a custom-llm agent
agentUpdateData(current) ==
    IF current.response_engine.type = "custom-llm"
    THEN Omit(current, {"_id", "_version"})
    ELSE Omit(current, {"_id", "_version", "response_engine"})

\* the body of an LLM or flow update: `const { _id, _version, ...data } = current`
resourceUpdateData(current) == Omit(current, {"_id", "_version"})

\* one mutation call of a batch: the request sent and the promise's state
mutationCall(endpoint, id, body, type, name) ==
    [endpoint |-> endpoint, id |-> id, body |-> body, type |-> type, name |-> name,
     status |-> "pending"]

updateCalls(list, endpoint, type, isAgent) ==
    [i \in 1..Len(list) |->
        mutationCall(endpoint, list[i].id,
                     IF isAgent THEN agentUpdateData(list[i].current)
                     ELSE resourceUpdateData(list[i].current),
                     type, list[i].name)]

\* the body of a test-case update: `const { _id, ...updateData } = current`
testCaseUpdateData(current) == Omit(current, {"_id"})

\* the array handed to Promise.allSettled by deploy: one call per change
deployCalls(chg) ==
    updateCalls(chg.voiceAgents, "update-agent", "voice agent", TRUE)
    \o updateCalls(chg.chatAgents, "update-chat-agent", "chat agent", TRUE)
    \o updateCalls(chg.llms, "update-retell-llm", "llm", FALSE)
    \o updateCalls(chg.flows, "update-conversation-flow", "flow", FALSE)
    \o [i \in 1..Len(chg.testCases) |->
           mutationCall("update-test-case-definition", chg.testCases[i].id,
                        testCaseUpdateData(chg.testCases[i].current), "test case",
                        chg.testCases[i].name)]

\* what goes over the wire for a call
requestOf(c) == [endpoint |-> c.endpoint, id |-> c.id, body |-> c.body]
requestsOf(calls) == [i \in 1..Len(calls) |-> requestOf(calls[i])]

\* the mutant: Promise.any-like, the batch is over at the first settled call
anySettled(calls) == \E i \in 1..Len(calls) : calls[i].status # "pending"

\* Promise.allSettled resolves when no promise of the array is pending
allSettled(calls) == \A i \in 1..Len(calls) : calls[i].status # "pending"

fulfilled(calls) == {i \in 1..Len(calls) : calls[i].status = "fulfilled"}
rejected(calls) == {i \in 1..Len(calls) : calls[i].status = "rejected"}

logLine(level, text, type, name, count) ==
    [level |-> level, text |-> text, type |-> type, name |-> name, count |-> count]

\* the mutant: the loop over the results stops at the first rejection
reportUntilFailure(calls, text, failText) ==
    LET stop == IF rejected(calls) = {} THEN Len(calls)
                ELSE CHOOSE i \in rejected(calls) : \A j \in rejected(calls) : i <= j IN
    [i \in 1..stop |->
        IF calls[i].status = "fulfilled"
        THEN logLine("log", text, calls[i].type, calls[i].name, Null)
        ELSE logLine("error", failText, "", "", Null)]

\* the loop over the settled results: one line per call, in the order of the batch
reportResults(calls, text, failText) ==
    [i \in 1..Len(calls) |->
        IF calls[i].status = "fulfilled"
        THEN logLine("log", text, calls[i].type, calls[i].name, Null)
        ELSE logLine("error", failText, "", "", Null)]

\* the ids in a Set's insertion order: the first occurrence of each id is kept
insertionOrder(ids) ==
    FilterIdx(ids, {i \in 1..Len(ids) : \A j \in 1..(i - 1) : ids[j] # ids[i]}, 1)

\* [...agentIdsToPublish]: findAffectedAgentIds adds the changed voice agents,
\* the changed chat agents, then the dependent agents of the state
affectedOrder(chg, state) ==
    LET agents == state.voiceAgents \o state.chatAgents
        deps == dependentAgentIds(chg, agents) IN
    insertionOrder([i \in 1..Len(chg.voiceAgents) |-> chg.voiceAgents[i].id]
                   \o [i \in 1..Len(chg.chatAgents) |-> chg.chatAgents[i].id]
                   \o FilterIdx([i \in 1..Len(agents) |-> agents[i]._id],
                                {i \in 1..Len(agents) : agents[i]._id \in deps}, 1))

\* chatAgentIds: the ids of the draft chat agents
chatAgentIds(state) == {state.chatAgents[i]._id : i \in 1..Len(state.chatAgents)}

\* agentNames.get(id) ?? id: the map is filled from the voice agents, then the
\* chat agents, with `agent_name ?? _id`; a later entry replaces an earlier one
agentNameOf(state, id) ==
    LET agents == state.voiceAgents \o state.chatAgents
        hits == {i \in 1..Len(agents) : agents[i]._id = id} IN
    IF hits = {} THEN id
    ELSE LET a == agents[CHOOSE i \in hits : \A j \in hits : j <= i] IN
         IF Has(a, "agent_name") THEN a.agent_name ELSE id

\* the mutant: every agent is published through the voice endpoint
publishEndpointVoiceOnly(id, chatIds) == "publish-agent"

publishEndpoint(id, chatIds) ==
    IF id \in chatIds THEN "publish-chat-agent" ELSE "publish-agent"

\* the array handed to Promise.allSettled by publish: one call per agent id
publishCalls(ids, state) ==
    [i \in 1..Len(ids) |->
        mutationCall(publishEndpoint(ids[i], chatAgentIds(state)), ids[i], <<>>,
                     IF ids[i] \in chatAgentIds(state) THEN "chat" ELSE "voice",
                     agentNameOf(state, ids[i]))]

publishedAgentIds(calls) == {calls[i].id : i \in fulfilled(calls)}
publishedVoiceAgentIds(calls) == {calls[i].id : i \in {j \in fulfilled(calls) : calls[j].type = "voice"}}

(***************************************************************************)
(* updatePhoneNumberVersions and patchAgentList                            *)
(***************************************************************************)
\* the mutant: the first published version of the list, without the sort
firstPublishedVersion(versions) ==
    LET pubs == {i \in 1..Len(versions) : isPublished(versions[i])} IN
    IF pubs = {} THEN Null
    ELSE LET top == CHOOSE i \in pubs : \A j \in pubs : i <= j IN
         IF Has(versions[top], "version") THEN versions[top].version ELSE Null

\* versions.filter(is_published).sort(by version, descending)[0]?.version;
\* Null for `undefined`; the sort is stable, so the first of equals is kept
latestPublishedVersion(versions) ==
    LET pubs == {i \in 1..Len(versions) : isPublished(versions[i])} IN
    IF pubs = {} THEN Null
    ELSE LET top == CHOOSE i \in pubs : \A j \in pubs :
                        \/ VersionOrZero(versions[j]) < VersionOrZero(versions[i])
                        \/ VersionOrZero(versions[j]) = VersionOrZero(versions[i]) /\ i <= j IN
         IF Has(versions[top], "version") THEN versions[top].version ELSE Null

\* the Map agent id -> latest published version; an id without one has no key
publishedVersionsOf(ids, versionLists) ==
    [id \in {x \in ids : latestPublishedVersion(versionLists[x]) # Null} |->
        latestPublishedVersion(versionLists[id])]

\* patchAgentList: `changed` FALSE stands for the `undefined` returned
patchAgentList(agents, publishedIds, publishedVersions) ==
    LET hit(entry) == entry.agent_id \in publishedIds /\ entry.agent_id \in DOMAIN publishedVersions IN
    [changed |-> \E i \in 1..Len(agents) : hit(agents[i]),
     list |-> [i \in 1..Len(agents) |->
                 IF hit(agents[i])
                 THEN SetKey(agents[i], "agent_version", publishedVersions[agents[i].agent_id])
                 ELSE agents[i]]]

\* phone.inbound_agents / phone.outbound_agents; a missing list gives `undefined`
\* in patchAgentList exactly as an empty one does
agentListOf(phone, key) == IF Has(phone, key) THEN phone[key] ELSE <<>>

\* the update of one phone number: the body holds only the patched lists
phoneUpdate(phone, publishedIds, publishedVersions) ==
    LET patchInbound == patchAgentList(agentListOf(phone, "inbound_agents"), publishedIds, publishedVersions)
        patchOutbound == patchAgentList(agentListOf(phone, "outbound_agents"), publishedIds, publishedVersions)
        keys == (IF patchInbound.changed THEN {"inbound_agents"} ELSE {})
                \cup (IF patchOutbound.changed THEN {"outbound_agents"} ELSE {}) IN
    [needed |-> keys # {},
     call |-> mutationCall("update-phone-number", phone.phone_number,
                           [k \in keys |-> IF k = "inbound_agents" THEN patchInbound.list
                                           ELSE patchOutbound.list],
                           "phone number", phone.phone_number)]

\* `updates`: the phone numbers with a patched list, in the order listed
phoneUpdates(phoneNumbers, publishedIds, publishedVersions) ==
    LET all == [i \in 1..Len(phoneNumbers) |->
                  phoneUpdate(phoneNumbers[i], publishedIds, publishedVersions)]
        kept == FilterIdx(all, {i \in 1..Len(all) : all[i].needed}, 1) IN
    [i \in 1..Len(kept) |-> kept[i].call]

(***************************************************************************)
(* Specification SpecCanon: the list endpoints return bounded lists, then  *)
(* getRemoteState canonicalises them                                       *)
(***************************************************************************)
MaxEntries == 3

llmEngine(id, v) == [type |-> "retell-llm", llm_id |-> id, version |-> v]
flowEngine(id, v) == [type |-> "conversation-flow", conversation_flow_id |-> id, version |-> v]
customEngine(url) == [type |-> "custom-llm", llm_websocket_url |-> url]

RawVoiceAgent ==
    [agent_id : {"a1"}, version : {0, 1}, is_published : BOOLEAN,
     response_engine : {llmEngine("l1", 0), llmEngine("l1", 1)}]
    \cup [agent_id : {"a2"}, version : {0}, is_published : BOOLEAN,
          response_engine : {llmEngine("l1", 0), llmEngine("l1", 1), flowEngine("f1", 0)}]
    \cup {[agent_id |-> "a2", response_engine |-> llmEngine("l1", Null)],
          [agent_id |-> "a2", response_engine |-> [type |-> "retell-llm", llm_id |-> "l1"]],
          [agent_id |-> "a2", version |-> 0, is_published |-> TRUE,
           response_engine |-> customEngine("wss://u")]}

RawChatAgent ==
    [agent_id : {"c1"}, version : {0}, is_published : BOOLEAN,
     response_engine : {flowEngine("f1", 0), llmEngine("l1", 0)}]

RawLlm ==
    [llm_id : {"l1"}, version : {0, 1}, is_published : BOOLEAN]
    \cup {[llm_id |-> "l1"]}

RawFlow == [conversation_flow_id : {"f1"}, version : {0}, is_published : BOOLEAN]

CanonInit == pc = "listing" /\ KeepIdle /\ CanonIdle /\ DiffIdle /\ RoundIdle /\ WriteIdle /\ CmdIdle /\ PageIdle /\ MarkIdle /\ TestsIdle

ApiTotal ==
    Len(api.voiceAgents) + Len(api.chatAgents) + Len(api.llms) + Len(api.conversationFlows)

\* a list endpoint returns one more entry
ApiList(kind, Universe) ==
    /\ pc = "listing"
    /\ ApiTotal < MaxEntries
    /\ \E e \in Universe : api' = [api EXCEPT ![kind] = Append(@, e)]
    /\ UNCHANGED <<pc, input, required, canonical, keepVars, diffVars, roundVars, writeVars, cmdVars, pageVars, markVars, testApi>>

ListVoiceAgents == ApiList("voiceAgents", RawVoiceAgent)
ListChatAgents == ApiList("chatAgents", RawChatAgent)
ListLlms == ApiList("llms", RawLlm)
ListFlows == ApiList("conversationFlows", RawFlow)

\* getRemoteState({ draft, agentIds }) on the lists fetched
GetRemoteState ==
    /\ pc = "listing"
    /\ \E draft \in BOOLEAN, agentIds \in {NoFilter, OnlyIds({"a1"})} :
          /\ input' = remoteInput(api, draft, agentIds)
          /\ required' = canonicalizeLocals(remoteInput(api, draft, agentIds))
          /\ canonical' = getRemoteState(api, draft, agentIds)
    /\ pc' = "canonical"
    /\ UNCHANGED <<api, keepVars, diffVars, roundVars, writeVars, cmdVars, pageVars, markVars, testApi>>

CanonNext ==
    \/ ListVoiceAgents
    \/ ListChatAgents
    \/ ListLlms
    \/ ListFlows
    \/ GetRemoteState

SpecCanon == CanonInit /\ [][CanonNext]_vars

\* entry i of a raw agent list is the latest version of its agent: no entry of
\* the same id has a greater version, and no earlier one has the same version
IsLatestAt(list, i) ==
    \A j \in 1..Len(list) :
        list[j].agent_id = list[i].agent_id =>
            /\ VersionOrZero(list[j]) <= VersionOrZero(list[i])
            /\ (VersionOrZero(list[j]) = VersionOrZero(list[i]) => i <= j)

\* the latest-version agents, voice and chat, among those passed in
LatestAgentsPassed ==
    {input.voiceAgents[i] : i \in {j \in 1..Len(input.voiceAgents) : IsLatestAt(input.voiceAgents, j)}}
    \cup {input.chatAgents[i] : i \in {j \in 1..Len(input.chatAgents) : IsLatestAt(input.chatAgents, j)}}

\* agent a's response engine is of the type, names the resource's exact
\* (id, version) pair, and a's publish flag is the resource's
NamesExactly(a, res, type, idField) ==
    /\ a.response_engine.type = type
    /\ a.response_engine[idField] = res[idField]
    /\ StrictEq(a.response_engine, res, "version")
    /\ StrictEq(a, res, "is_published")

KeptByClaim(list, type, idField) ==
    FilterIdx(list,
        {i \in 1..Len(list) : \E a \in LatestAgentsPassed : NamesExactly(a, list[i], type, idField)},
        1)

AllPassedPublished ==
    /\ \A i \in 1..Len(input.voiceAgents) : isPublished(input.voiceAgents[i])
    /\ \A i \in 1..Len(input.chatAgents) : isPublished(input.chatAgents[i])

\* C7: canonicalizeFromApi keeps an LLM (a flow) of its input exactly when some
\* latest-version agent, voice or chat, has a retell-llm (conversation-flow)
\* response engine naming that exact (id, version) pair with the same
\* is_published flag; when all agents passed in are published, no unpublished
\* LLM or flow is in the result.
C7_CrossReferenceFiltering ==
    pc = "canonical" =>
        /\ required.requiredLLMs = KeptByClaim(input.llms, "retell-llm", "llm_id")
        /\ required.requiredConversationFlows =
              KeptByClaim(input.conversationFlows, "conversation-flow", "conversation_flow_id")
        /\ canonical.llms = [i \in 1..Len(required.requiredLLMs) |-> stripLlm(required.requiredLLMs[i])]
        /\ canonical.conversationFlows = [i \in 1..Len(required.requiredConversationFlows) |-> stripFlow(required.requiredConversationFlows[i])]
        /\ AllPassedPublished =>
              /\ \A i \in 1..Len(required.requiredLLMs) : isPublished(required.requiredLLMs[i])
              /\ \A i \in 1..Len(required.requiredConversationFlows) :
                    isPublished(required.requiredConversationFlows[i])

\* C7 witness: of two listed versions of an LLM that the latest agent names by
\* id, one is kept and the other, whose publish flag differs from the agent's,
\* is dropped
C7_Witness ==
    /\ pc = "canonical"
    /\ Len(input.llms) = 2
    /\ Len(canonical.llms) = 1
    /\ \E a \in LatestAgentsPassed :
          /\ a.response_engine.type = "retell-llm"
          /\ \E i \in 1..2 :
                /\ a.response_engine.llm_id = input.llms[i].llm_id
                /\ StrictEq(a.response_engine, input.llms[i], "version")
                /\ ~StrictEq(a, input.llms[i], "is_published")

(***************************************************************************)
(* Specification SpecDiff: a remote account is fetched, the source state   *)
(* and the reference state drift apart by a bounded number of edits, then  *)
(* computeChanges and findAffectedAgentIds run on them                     *)
(***************************************************************************)
MaxEdits == 2

flowEdge(id, dest) == [id |-> id, destination_node_id |-> dest]
flowNode(id, text, edges) ==
    [id |-> id, type |-> "conversation", instruction |-> [type |-> "prompt", text |-> text],
     edges |-> edges, display_position |-> [x |-> 0, y |-> 0]]

richVoiceAgent(id, v, pub, eng) ==
    [agent_id |-> id, version |-> v, is_published |-> pub, agent_name |-> "Bot",
     voice_id |-> "voice1", response_engine |-> eng]
richChatAgent(id, v, pub, eng) ==
    [agent_id |-> id, version |-> v, is_published |-> pub, response_engine |-> eng]
richLlm(id, v, pub, prompt) ==
    [llm_id |-> id, version |-> v, is_published |-> pub, model |-> "gpt", general_prompt |-> prompt]
richFlow(id, v, pub, text) ==
    [conversation_flow_id |-> id, version |-> v, is_published |-> pub, global_prompt |-> <<"G">>,
     nodes |-> <<flowNode("n1", text, <<flowEdge("e1", "n2"), flowEdge("e2", "n1")>>),
                 flowNode("n2", <<"T2">>, <<>>)>>]

\* the accounts fetched: what the four list endpoints return
DiffVoiceLists ==
    {<<>>,
     <<richVoiceAgent("a1", 0, FALSE, llmEngine("l1", 0))>>,
     <<richVoiceAgent("a1", 0, FALSE, flowEngine("f1", 0))>>,
     <<richVoiceAgent("a1", 0, FALSE, llmEngine("l1", 0)), richVoiceAgent("a2", 0, FALSE, llmEngine("l1", 1))>>,
     <<richVoiceAgent("a1", 0, FALSE, customEngine("wss://u"))>>}
DiffChatLists ==
    {<<>>, <<richChatAgent("c1", 0, FALSE, flowEngine("f1", 0))>>, <<richChatAgent("c1", 0, FALSE, llmEngine("l1", 0))>>}
DiffAccounts ==
    {[voiceAgents |-> va, chatAgents |-> ca,
      llms |-> <<richLlm("l1", 0, FALSE, <<"A">>), richLlm("l1", 1, FALSE, <<"B">>)>>,
      conversationFlows |-> <<richFlow("f1", 0, FALSE, <<"T1">>)>>] : va \in DiffVoiceLists, ca \in DiffChatLists}

Kinds == {"voiceAgents", "chatAgents", "llms", "conversationFlows"}
AgentKinds == {"voiceAgents", "chatAgents"}
changesKey(kind) == IF kind = "conversationFlows" THEN "flows" ELSE kind

\* the string-valued fields an edit rewrites
TextFields(kind) ==
    CASE kind = "voiceAgents" -> {"voice_id", "agent_name"}
      [] kind = "chatAgents" -> {"agent_name"}
      [] kind = "llms" -> {"general_prompt"}
      [] kind = "conversationFlows" -> {"global_prompt"}

EngineChoices == {llmEngine("l1", 1), flowEngine("f1", 0), customEngine("wss://v")}

Reverse(seq) == [i \in 1..Len(seq) |-> seq[Len(seq) + 1 - i]]
RemoveAt(seq, i) == FilterIdx(seq, (1..Len(seq)) \ {i}, 1)

DiffInit ==
    /\ pc = "fetch"
    /\ KeepIdle
    /\ api \in DiffAccounts
    /\ input = EmptyState /\ required = NoLocals /\ canonical = EmptyState
    /\ DiffIdle /\ RoundIdle /\ WriteIdle /\ CmdIdle /\ PageIdle /\ MarkIdle /\ TestsIdle

\* both states start as the remote draft state
DiffFetch ==
    /\ pc = "fetch"
    /\ input' = remoteInput(api, TRUE, NoFilter)
    /\ required' = canonicalizeLocals(remoteInput(api, TRUE, NoFilter))
    /\ canonical' = getRemoteState(api, TRUE, NoFilter)
    /\ source' = getRemoteState(api, TRUE, NoFilter)
    /\ reference' = getRemoteState(api, TRUE, NoFilter)
    /\ pc' = "editing"
    /\ UNCHANGED <<api, keepVars, includeNew, changes, affected, edits, roundVars, writeVars, cmdVars, pageVars, markVars, testApi>>

\* an edit of the source state
EditSource(newSource) ==
    /\ pc = "editing"
    /\ edits < MaxEdits
    /\ source' = newSource
    /\ edits' = edits + 1
    /\ UNCHANGED <<pc, keepVars, canonVars, reference, includeNew, changes, affected, roundVars, writeVars, cmdVars, pageVars, markVars, testApi>>

EditText ==
    \E kind \in Kinds : \E i \in 1..Len(source[kind]) : \E key \in TextFields(kind) :
        EditSource([source EXCEPT ![kind][i] =
            SetKey(@, key, IF key \in TextKeys THEN <<"edited">> ELSE "edited")])

UnsetName ==
    \E kind \in AgentKinds : \E i \in 1..Len(source[kind]) :
        /\ Has(source[kind][i], "agent_name")
        /\ EditSource([source EXCEPT ![kind][i] = Omit(@, {"agent_name"})])

BumpVersion ==
    \E kind \in Kinds : \E i \in 1..Len(source[kind]) :
        EditSource([source EXCEPT ![kind][i]._version = @ + 1])

Rebind ==
    \E kind \in AgentKinds : \E i \in 1..Len(source[kind]) : \E eng \in EngineChoices :
        /\ source[kind][i].response_engine # eng
        /\ EditSource([source EXCEPT ![kind][i] = SetKey(@, "response_engine", eng)])

ReorderNodes ==
    \E i \in 1..Len(source.conversationFlows) :
        /\ Len(source.conversationFlows[i].nodes) >= 2
        /\ EditSource([source EXCEPT !.conversationFlows[i].nodes = Reverse(@)])

ReorderEdges ==
    \E i \in 1..Len(source.conversationFlows) :
        \E j \in 1..Len(source.conversationFlows[i].nodes) :
            /\ Len(source.conversationFlows[i].nodes[j].edges) >= 2
            /\ EditSource([source EXCEPT !.conversationFlows[i].nodes[j].edges = Reverse(@)])

EditNode ==
    \E i \in 1..Len(source.conversationFlows) :
        \E j \in 1..Len(source.conversationFlows[i].nodes) :
            EditSource([source EXCEPT !.conversationFlows[i].nodes[j].instruction.text = <<"edited">>])

\* a resource leaves the source state
DropSource ==
    \E kind \in Kinds : \E i \in 1..Len(source[kind]) :
        EditSource([source EXCEPT ![kind] = RemoveAt(@, i)])

\* a resource is absent from the reference state: it is new in the source
DropReference ==
    /\ pc = "editing"
    /\ edits < MaxEdits
    /\ \E kind \in Kinds : \E i \in 1..Len(reference[kind]) :
          reference' = [reference EXCEPT ![kind] = RemoveAt(@, i)]
    /\ edits' = edits + 1
    /\ UNCHANGED <<pc, keepVars, canonVars, source, includeNew, changes, affected, roundVars, writeVars, cmdVars, pageVars, markVars, testApi>>

ComputeChanges ==
    /\ pc = "editing"
    /\ \E incl \in BOOLEAN :
          /\ includeNew' = incl
          /\ changes' = computeChanges(source, reference, incl)
    /\ pc' = "diffed"
    /\ UNCHANGED <<keepVars, canonVars, source, reference, affected, edits, roundVars, writeVars, cmdVars, pageVars, markVars, testApi>>

FindAffected ==
    /\ pc = "diffed"
    /\ affected' = findAffectedAgentIds(changes, source)
    /\ pc' = "affected"
    /\ UNCHANGED <<keepVars, canonVars, source, reference, includeNew, changes, edits, roundVars, writeVars, cmdVars, pageVars, markVars, testApi>>

DiffNext ==
    \/ DiffFetch
    \/ EditText
    \/ UnsetName
    \/ BumpVersion
    \/ Rebind
    \/ ReorderNodes
    \/ ReorderEdges
    \/ EditNode
    \/ DropSource
    \/ DropReference
    \/ ComputeChanges
    \/ FindAffected

SpecDiff == DiffInit /\ [][DiffNext]_vars

Diffed == pc \in {"diffed", "affected"}

\* a node with the order of its edges forgotten
NodeUnordered(n) == [n EXCEPT !.edges = Range(@)]

\* two flows that differ only in the order of their nodes and of their nodes' edges
SameUpToOrder(f, g) ==
    /\ Omit(f, {"nodes"}) = Omit(g, {"nodes"})
    /\ Len(f.nodes) = Len(g.nodes)
    /\ {NodeUnordered(n) : n \in Range(f.nodes)} = {NodeUnordered(n) : n \in Range(g.nodes)}

\* C2: a source flow that differs from its reference flow only in the order of
\* the elements of an array whose elements carry unique ids (nodes, edges) gets
\* no change from computeChanges.
C2_OrderInsensitive ==
    Diffed =>
        \A i \in 1..Len(source.conversationFlows) :
            LET f == source.conversationFlows[i]
                r == refIndex(reference.conversationFlows, f._id)
            IN  (r # 0 /\ SameUpToOrder(f, reference.conversationFlows[r]))
                    => f._id \notin changedIds(changes.flows)

\* C3: computeChanges(S, S) returns four empty lists, whatever includeNew is.
C3_SelfDiffEmpty ==
    (Diffed /\ source = reference) =>
        /\ Len(changes.voiceAgents) = 0
        /\ Len(changes.chatAgents) = 0
        /\ Len(changes.llms) = 0
        /\ Len(changes.flows) = 0

\* the ids of the state's agents that depend on a changed LLM or a changed flow
DependsOnChanged(agent) ==
    \/ /\ agent.response_engine.type = "retell-llm"
       /\ \E k \in 1..Len(changes.llms) : changes.llms[k].id = agent.response_engine.llm_id
    \/ /\ agent.response_engine.type = "conversation-flow"
       /\ \E k \in 1..Len(changes.flows) :
             changes.flows[k].id = agent.response_engine.conversation_flow_id

\* C8: findAffectedAgentIds(changes, S) is exactly the ids with a voice-agent or
\* chat-agent change, together with the ids of the agents of S whose response
\* engine is a retell-llm naming a changed LLM or a conversation-flow naming a
\* changed flow.
C8_AffectedAgents ==
    pc = "affected" =>
        affected =
            {changes.voiceAgents[k].id : k \in 1..Len(changes.voiceAgents)}
            \cup {changes.chatAgents[k].id : k \in 1..Len(changes.chatAgents)}
            \cup {source.voiceAgents[i]._id :
                    i \in {j \in 1..Len(source.voiceAgents) : DependsOnChanged(source.voiceAgents[j])}}
            \cup {source.chatAgents[i]._id :
                    i \in {j \in 1..Len(source.chatAgents) : DependsOnChanged(source.chatAgents[j])}}

\* C8 witness: of the agents of the state, one is affected only through the
\* flow it runs on and another is not affected at all
C8_Witness ==
    /\ pc = "affected"
    /\ Len(changes.voiceAgents) = 0 /\ Len(changes.chatAgents) = 0
    /\ Len(changes.flows) = 1 /\ Len(changes.llms) = 0
    /\ \E i \in 1..Len(source.chatAgents) :
          /\ source.chatAgents[i].response_engine.type = "conversation-flow"
          /\ source.chatAgents[i]._id \in affected
    /\ \E i \in 1..Len(source.voiceAgents) : source.voiceAgents[i]._id \notin affected

\* the entries of the source list of a kind that have no reference entry of
\* the same _id, and the changes reported under their ids
NewEntries(kind) ==
    FilterIdx(source[kind],
        {i \in 1..Len(source[kind]) :
            \A j \in 1..Len(reference[kind]) : reference[kind][j]._id # source[kind][i]._id},
        1)
ChangesOfNew(kind) ==
    LET list == changes[changesKey(kind)] IN
    FilterIdx(list,
        {k \in 1..Len(list) : \E n \in 1..Len(NewEntries(kind)) : NewEntries(kind)[n]._id = list[k].id},
        1)

\* C10: for a source resource with no reference entry of the same _id,
\* computeChanges with includeNew reports exactly one change, whose differences
\* are a single CREATE with an empty path and the resource as value; without
\* includeNew it reports no change for it.
C10_NewResource ==
    Diffed =>
        \A kind \in Kinds :
            IF includeNew
            THEN /\ Len(ChangesOfNew(kind)) = Len(NewEntries(kind))
                 /\ \A n \in 1..Len(NewEntries(kind)) :
                       LET c == ChangesOfNew(kind)[n] IN
                       /\ c.id = NewEntries(kind)[n]._id
                       /\ Len(c.differences) = 1
                       /\ c.differences[1].type = "CREATE"
                       /\ Len(c.differences[1].path) = 0
                       /\ c.differences[1].value = NewEntries(kind)[n]
            ELSE Len(ChangesOfNew(kind)) = 0

\* C10 witness: with includeNew, a new LLM is reported next to a changed agent
C10_Witness ==
    /\ Diffed
    /\ includeNew
    /\ Len(NewEntries("llms")) = 1
    /\ Len(changes.llms) = 1
    /\ changes.llms[1].differences[1].type = "CREATE"
    /\ Len(changes.voiceAgents) = 1

\* new resources are skipped when includeNew is off
C10_WitnessSkipped ==
    /\ Diffed
    /\ ~includeNew
    /\ Len(NewEntries("llms")) = 1
    /\ Len(changes.llms) = 0

\* the source resource is the `current` of a reported change
Reported(kind, res) ==
    \E k \in 1..Len(changes[changesKey(kind)]) : changes[changesKey(kind)][k].current = res

\* the reference entry a source resource is compared with
Compared(kind, res) == reference[kind][refIndex(reference[kind], res._id)]

\* C11: a source resource that differs from the reference entry of its _id
\* only in _version is not reported; an agent that differs from its reference
\* entry in response_engine, and otherwise at most in _version, is reported
\* if and only if the source agent's response engine is a custom-llm.
C11_FieldExclusion ==
    Diffed =>
        \A kind \in Kinds : \A i \in 1..Len(source[kind]) :
            LET res == source[kind][i] IN
            refIndex(reference[kind], res._id) # 0 =>
                /\ Omit(res, {"_version"}) = Omit(Compared(kind, res), {"_version"})
                      => ~Reported(kind, res)
                /\ (/\ kind \in AgentKinds
                    /\ Omit(res, {"_version", "response_engine"})
                          = Omit(Compared(kind, res), {"_version", "response_engine"})
                    /\ res.response_engine # Compared(kind, res).response_engine)
                      => (Reported(kind, res) <=> res.response_engine.type = "custom-llm")

\* agent a1, rebound from one custom-llm URL to another, is reported, while
\* an LLM whose version alone moved is not
C11_Witness ==
    /\ Diffed
    /\ \E i \in 1..Len(source.voiceAgents) :
          LET res == source.voiceAgents[i] IN
          /\ refIndex(reference.voiceAgents, res._id) # 0
          /\ res.response_engine.type = "custom-llm"
          /\ Compared("voiceAgents", res).response_engine.type = "custom-llm"
          /\ res.response_engine # Compared("voiceAgents", res).response_engine
          /\ Omit(res, {"response_engine"}) = Omit(Compared("voiceAgents", res), {"response_engine"})
          /\ Reported("voiceAgents", res)
    /\ \E i \in 1..Len(source.llms) :
          LET res == source.llms[i] IN
          /\ refIndex(reference.llms, res._id) # 0
          /\ res._version # Compared("llms", res)._version
          /\ Omit(res, {"_version"}) = Omit(Compared("llms", res), {"_version"})
          /\ ~Reported("llms", res)

\* an agent on a retell-llm engine, rebound to another LLM version, is not
\* reported
C11_WitnessExcluded ==
    /\ Diffed
    /\ \E i \in 1..Len(source.voiceAgents) :
          LET res == source.voiceAgents[i] IN
          /\ refIndex(reference.voiceAgents, res._id) # 0
          /\ res.response_engine.type = "retell-llm"
          /\ res.response_engine # Compared("voiceAgents", res).response_engine
          /\ ~Reported("voiceAgents", res)

\* the ids of the resources of a kind in a state
idsOfKind(state, kind) == {state[kind][i]._id : i \in 1..Len(state[kind])}

\* C30: every entry of computeChanges' output has the _id of a source
\* resource of its kind and that resource as `current`; the entries are those
\* of some of the source resources, one each, in the order of the source; the
\* id of a resource that only the reference state holds is in no entry.
C30_SourceOnly ==
    Diffed =>
        \A kind \in Kinds :
            LET out == changes[changesKey(kind)] IN
            /\ \A k \in 1..Len(out) :
                  /\ out[k].id \in idsOfKind(source, kind)
                  /\ \E i \in 1..Len(source[kind]) :
                        source[kind][i] = out[k].current /\ source[kind][i]._id = out[k].id
            /\ \E kept \in SUBSET (1..Len(source[kind])) :
                  [k \in 1..Len(out) |-> out[k].current] = FilterIdx(source[kind], kept, 1)
            /\ \A j \in 1..Len(reference[kind]) :
                  reference[kind][j]._id \notin idsOfKind(source, kind) =>
                     \A k \in 1..Len(out) : out[k].id # reference[kind][j]._id

\* C30 witness: the reference state holds a voice agent the source state
\* does not; the one source voice agent is reported, and nothing else is
C30_Witness ==
    /\ Diffed
    /\ Len(source.voiceAgents) = 1 /\ Len(reference.voiceAgents) = 2
    /\ \E j \in 1..2 : reference.voiceAgents[j]._id \notin idsOfKind(source, "voiceAgents")
    /\ Len(changes.voiceAgents) = 1
    /\ changes.voiceAgents[1].current = source.voiceAgents[1]

(***************************************************************************)
(* Specification SpecPublish: the publish command fetches the draft state  *)
(* and the published state of an account, compares them with includeNew,   *)
(* and collects the agents to publish                                      *)
(***************************************************************************)
\* the versions of voice agent a1: a published v0 (if any) and the draft v1
PublishVoiceLists ==
    {pubs \o <<[richVoiceAgent("a1", 1, FALSE, llmEngine("l1", 1)) EXCEPT !.voice_id = voice]>> :
        pubs \in {<<>>, <<richVoiceAgent("a1", 0, TRUE, llmEngine("l1", 0))>>},
        voice \in {"voice1", "voice2"}}

\* chat agent c1, if the account has it, runs on LLM l1 or on flow f1
PublishChatLists ==
    {<<>>,
     <<richChatAgent("c1", 0, TRUE, llmEngine("l1", 0)), richChatAgent("c1", 1, FALSE, llmEngine("l1", 1))>>,
     <<richChatAgent("c1", 0, TRUE, flowEngine("f1", 0)), richChatAgent("c1", 1, FALSE, flowEngine("f1", 1))>>}

PublishAccounts ==
    {[voiceAgents |-> va, chatAgents |-> ca,
      llms |-> <<richLlm("l1", 0, TRUE, <<"A">>), richLlm("l1", 1, FALSE, prompt)>>,
      conversationFlows |-> <<richFlow("f1", 0, TRUE, <<"T1">>), richFlow("f1", 1, FALSE, text)>>] :
        va \in PublishVoiceLists, ca \in PublishChatLists,
        prompt \in {<<"A">>, <<"B">>}, text \in {<<"T1">>, <<"T3">>}}

PublishInit ==
    /\ pc = "fetch"
    /\ KeepIdle
    /\ api \in PublishAccounts
    /\ input = EmptyState /\ required = NoLocals /\ canonical = EmptyState
    /\ DiffIdle /\ RoundIdle /\ WriteIdle /\ CmdIdle /\ PageIdle /\ MarkIdle /\ TestsIdle

\* getRemoteState({ draft: true, agentIds }) and getRemoteState({ draft: false, agentIds })
PublishFetch ==
    /\ pc = "fetch"
    /\ \E agentIds \in {NoFilter, OnlyIds({"a1"})} :
          /\ source' = getRemoteState(api, TRUE, agentIds)
          /\ reference' = getRemoteState(api, FALSE, agentIds)
    /\ pc' = "fetched"
    /\ UNCHANGED <<keepVars, canonVars, includeNew, changes, affected, edits, roundVars, writeVars, cmdVars, pageVars, markVars, testApi>>

\* computeChanges(draftState, publishedState, { includeNew: true })
PublishCompare ==
    /\ pc = "fetched"
    /\ includeNew' = TRUE
    /\ changes' = computeChanges(source, reference, TRUE)
    /\ pc' = "compared"
    /\ UNCHANGED <<keepVars, canonVars, source, reference, affected, edits, roundVars, writeVars, cmdVars, pageVars, markVars, testApi>>

\* agentIdsToPublish = findAffectedAgentIds(changes, draftState)
PublishCollect ==
    /\ pc = "compared"
    /\ affected' = findAffectedAgentIds(changes, source)
    /\ pc' = "collected"
    /\ UNCHANGED <<keepVars, canonVars, source, reference, includeNew, changes, edits, roundVars, writeVars, cmdVars, pageVars, markVars, testApi>>

PublishNext == PublishFetch \/ PublishCompare \/ PublishCollect

SpecPublish == PublishInit /\ [][PublishNext]_vars

\* a state with the version numbers, and the general_prompt of LLM L, left out
ContentButPrompt(state, L) ==
    LET agent(a) == [Omit(a, {"_version"}) EXCEPT !.response_engine = Omit(@, {"version"})]
        res(r) == IF r._id = L THEN Omit(r, {"_version", "general_prompt"}) ELSE Omit(r, {"_version"})
    IN  [voiceAgents |-> [i \in 1..Len(state.voiceAgents) |-> agent(state.voiceAgents[i])],
         chatAgents |-> [i \in 1..Len(state.chatAgents) |-> agent(state.chatAgents[i])],
         llms |-> [i \in 1..Len(state.llms) |-> res(state.llms[i])],
         conversationFlows |-> [i \in 1..Len(state.conversationFlows) |-> res(state.conversationFlows[i])]]

\* the draft state has agent X on LLM L at version 1, the published state has
\* the previous version of X on L at version 0, X is the one agent on L, and the
\* one difference of content between the two states is L's general_prompt
CascadeScenario(X, L) ==
    /\ \E kind \in AgentKinds : \E i \in 1..Len(source[kind]) : \E j \in 1..Len(reference[kind]) :
          /\ source[kind][i]._id = X
          /\ source[kind][i].response_engine = llmEngine(L, 1)
          /\ reference[kind][j]._id = X
          /\ reference[kind][j].response_engine = llmEngine(L, 0)
          /\ reference[kind][j]._version < source[kind][i]._version
    /\ \A kind \in AgentKinds : \A i \in 1..Len(source[kind]) :
          (/\ source[kind][i].response_engine.type = "retell-llm"
           /\ source[kind][i].response_engine.llm_id = L) => source[kind][i]._id = X
    /\ Len(source.llms) = 1 /\ Len(reference.llms) = 1
    /\ source.llms[1]._id = L /\ source.llms[1]._version = 1
    /\ reference.llms[1]._id = L /\ reference.llms[1]._version = 0
    /\ source.llms[1].general_prompt # reference.llms[1].general_prompt
    /\ ContentButPrompt(source, L) = ContentButPrompt(reference, L)

\* C9: when the draft state has agent X on LLM L at version 1, the published
\* state has the previous version of X on L at version 0, and only
\* L.general_prompt differs in content, computeChanges(draft, published) with
\* includeNew reports one LLM change, for L, whose differences are a CHANGE at
\* path general_prompt, reports no agent change, and findAffectedAgentIds on the
\* draft state returns exactly {X}.
C9_PublishCascade ==
    pc = "collected" =>
        \A X \in {"a1", "c1"} : \A L \in {"l1"} :
            CascadeScenario(X, L) =>
                /\ Len(changes.llms) = 1
                /\ changes.llms[1].id = L
                /\ Len(changes.llms[1].differences) = 1
                /\ changes.llms[1].differences[1].type = "CHANGE"
                /\ changes.llms[1].differences[1].path = <<"general_prompt">>
                /\ Len(changes.voiceAgents) = 0
                /\ Len(changes.chatAgents) = 0
                /\ affected = {X}

\* C9 witness: the scenario, next to an agent on a flow that is left alone
C9_Witness ==
    /\ pc = "collected"
    /\ CascadeScenario("a1", "l1")
    /\ Len(source.chatAgents) = 1
    /\ affected = {"a1"}

(***************************************************************************)
(* Specification SpecRound: an account is fetched and canonicalised, the   *)
(* state is serialised to a file map, and the file map is read back        *)
(***************************************************************************)
namedVoiceAgent(id, name, eng) == [richVoiceAgent(id, 0, FALSE, eng) EXCEPT !.agent_name = name]

RoundVoiceLists ==
    {<<namedVoiceAgent("a1", "Bot", llmEngine("l1", 0))>>,
     <<namedVoiceAgent("a1", "Bot", flowEngine("f1", 0))>>,
     <<namedVoiceAgent("a1", "Bot", customEngine("wss://u"))>>,
     <<namedVoiceAgent("a1", "Bot", llmEngine("l1", Null))>>,
     <<namedVoiceAgent("a1", "Bot", llmEngine("l1", 0)), namedVoiceAgent("agent_2", "My Bot", llmEngine("l1", 0))>>,
     <<namedVoiceAgent("a1", "Bot", llmEngine("l1", 0)), namedVoiceAgent("agent_2", "My Bot", llmEngine("l1", 1))>>,
     <<namedVoiceAgent("a1", "Bot", flowEngine("f1", 0)), namedVoiceAgent("agent_2", "My Bot", flowEngine("f1", 0))>>}

RoundChatLists ==
    {<<>>, <<richChatAgent("c1", 0, FALSE, llmEngine("l1", 0))>>,
     <<richChatAgent("c1", 0, FALSE, flowEngine("f1", 0))>>}

\* prompts: plain, with blank space around, blank, empty, opening with a "---" line
RoundPrompts ==
    {<<"A">>, <<" ", "A", "\n", "\n">>, <<" ">>, <<>>, <<"---", "\n", "A", "\n", "---", "\n", "B">>}

\* the x coordinate of node n1, in halves: 0, or 1.5
RoundCoordinates == {0, 3}

roundFlow(x, withBeginTag) ==
    LET f == [richFlow("f1", 0, FALSE, <<"T1">>) EXCEPT
                !.nodes[1] = SetKey(@, "name", "Start"),
                !.nodes[1].display_position.x = x]
    IN  IF withBeginTag THEN SetKey(f, "begin_tag_display_position", [x |-> x, y |-> 0]) ELSE f

\* a component embedded in a flow: a name, a begin-tag position, one node
embeddedComponent(x) ==
    [name |-> "Sub", begin_tag_display_position |-> [x |-> x, y |-> 0],
     nodes |-> <<flowNode("n3", <<"T3">>, <<>>)>>]

\* the flow: without a begin-tag position, with one, or with one and an
\* embedded component
RoundFlows(x) ==
    {roundFlow(x, FALSE), roundFlow(x, TRUE),
     SetKey(roundFlow(x, TRUE), "components", <<embeddedComponent(x)>>)}

RoundAccounts ==
    {[voiceAgents |-> va, chatAgents |-> ca,
      llms |-> <<richLlm("l1", 0, FALSE, prompt), richLlm("l1", 1, FALSE, <<"B">>)>>,
      conversationFlows |-> <<flow>>] :
        va \in RoundVoiceLists, ca \in RoundChatLists, prompt \in RoundPrompts,
        flow \in UNION {RoundFlows(x) : x \in RoundCoordinates}}

RoundInit ==
    /\ pc = "fetch"
    /\ KeepIdle
    /\ api \in RoundAccounts
    /\ input = EmptyState /\ required = NoLocals /\ canonical = EmptyState
    /\ DiffIdle /\ RoundIdle /\ WriteIdle /\ CmdIdle /\ PageIdle /\ MarkIdle /\ TestsIdle

RoundFetch ==
    /\ pc = "fetch"
    /\ input' = remoteInput(api, TRUE, NoFilter)
    /\ required' = canonicalizeLocals(remoteInput(api, TRUE, NoFilter))
    /\ canonical' = getRemoteState(api, TRUE, NoFilter)
    /\ pc' = "canonical"
    /\ UNCHANGED <<api, keepVars, diffVars, roundVars, writeVars, cmdVars, pageVars, markVars, testApi>>

Serialize ==
    /\ pc = "canonical"
    /\ fileMap' = serializeState(canonical)
    /\ mutated' = [canonical EXCEPT !.conversationFlows = serializeRun(canonical).flows]
    /\ pc' = "serialized"
    /\ UNCHANGED <<keepVars, canonVars, diffVars, roundTrip, writeVars, cmdVars, pageVars, markVars, testApi>>

Deserialize ==
    /\ pc = "serialized"
    /\ roundTrip' = canonicalizeFromFiles(fileMap)
    /\ pc' = "read"
    /\ UNCHANGED <<keepVars, canonVars, diffVars, fileMap, mutated, writeVars, cmdVars, pageVars, markVars, testApi>>

RoundNext == RoundFetch \/ Serialize \/ Deserialize

SpecRound == RoundInit /\ [][RoundNext]_vars

\* a value with its texts put through the formatter
RECURSIVE normalizeTexts(_, _)
normalizeTexts(value, isArray) ==
    IF isArray THEN [i \in 1..Len(value) |-> normalizeTexts(value[i], FALSE)]
    ELSE [k \in DOMAIN value |->
            IF k \in TextKeys THEN formatMarkdown(value[k])
            ELSE IF k \in ArrayKeys \cup ObjectKeys THEN normalizeTexts(value[k], k \in ArrayKeys)
            ELSE value[k]]

\* every entry of list is matched, by _id, to an entry of other with equal
\* field values
MatchedById(list, other) ==
    /\ Len(list) = Len(other)
    /\ \A i \in 1..Len(list) :
          /\ \E j \in 1..Len(other) : other[j]._id = list[i]._id
          /\ LET j == CHOOSE k \in 1..Len(other) :
                        other[k]._id = list[i]._id /\ \A m \in 1..(k - 1) : other[m]._id # list[i]._id
             IN  normalizeTexts(other[j], FALSE) = normalizeTexts(list[i], FALSE)

\* C1: canonicalizeFromFiles(serializeState(S)) returns a state that equals S,
\* the state canonicalizeFromApi produced: each collection has as many entries
\* and every entry is matched by _id to an entry with equal field values,
\* texts compared after formatting.
C1_RoundTrip ==
    pc = "read" =>
        /\ roundTrip.ok
        /\ \A kind \in Kinds : MatchedById(canonical[kind], roundTrip.state[kind])

\* the ids of a collection are pairwise distinct
UniqueIds(list) == \A i, j \in 1..Len(list) : list[i]._id = list[j]._id => i = j

\* C6: no two entries of a collection of a state returned by canonicalizeFromApi
\* or by canonicalizeFromFiles have the same _id.
C6_IdentityUniqueness ==
    /\ pc \in {"canonical", "serialized", "read"} => \A kind \in Kinds : UniqueIds(canonical[kind])
    /\ (pc = "read" /\ roundTrip.ok) => \A kind \in Kinds : UniqueIds(roundTrip.state[kind])

\* the round trip gives the state back: one agent on its own LLM, its prompt
\* written with blank space around
RoundTripHolds ==
    /\ pc = "read"
    /\ roundTrip.ok
    /\ \A kind \in Kinds : MatchedById(canonical[kind], roundTrip.state[kind])
    /\ Len(canonical.llms) = 1
    /\ canonical.llms[1].general_prompt # formatMarkdown(canonical.llms[1].general_prompt)
    /\ Len(canonical.conversationFlows) = 1

\* the value holds a position field, at any depth
RECURSIVE hasPositionField(_, _)
hasPositionField(value, isArray) ==
    IF isArray THEN \E i \in 1..Len(value) : hasPositionField(value[i], FALSE)
    ELSE \/ DOMAIN value \cap {"display_position", "begin_tag_display_position"} # {}
         \/ \E k \in DOMAIN value \cap (ArrayKeys \cup ObjectKeys) :
                hasPositionField(value[k], k \in ArrayKeys)

\* the agents of the state serialized that run on a flow of the state
flowAgents ==
    LET agents == canonical.voiceAgents \o canonical.chatAgents IN
    {i \in 1..Len(agents) :
        /\ agents[i].response_engine.type = "conversation-flow"
        /\ refIndex(canonical.conversationFlows, agents[i].response_engine.conversation_flow_id) # 0}

\* the sidecar of the directory holds the positions of the flow, rounded
positionsKept(flow, sidecar) ==
    /\ Has(flow, "begin_tag_display_position") =>
          Has(sidecar, "begin_tag") /\ sidecar.begin_tag = roundPos(flow.begin_tag_display_position)
    /\ \A i \in 1..Len(flow.nodes) :
          Has(flow.nodes[i], "display_position") =>
             /\ Has(sidecar, "nodes") /\ Has(sidecar.nodes, flow.nodes[i].id)
             /\ sidecar.nodes[flow.nodes[i].id] = roundPos(flow.nodes[i].display_position)
    /\ Has(flow, "components") =>
          \A i \in 1..Len(flow.components) :
             Has(flow.components[i], "begin_tag_display_position") =>
                /\ Has(sidecar, "components") /\ Has(sidecar.components, flow.components[i].name)
                /\ sidecar.components[flow.components[i].name]
                      = roundPos(flow.components[i].begin_tag_display_position)

\* C21 (position extraction): in the file map of serializeState, for every
\* agent on a flow, conversation-flow.yaml of the agent's directory holds no
\* display_position and no begin_tag_display_position at any depth, and
\* .positions.json of that directory holds the begin-tag position, the
\* position of every node under its id and the begin-tag position of every
\* component under its name, rounded
C21_PositionExtraction ==
    pc \in {"serialized", "read"} =>
      \A i \in flowAgents :
        LET agent == (canonical.voiceAgents \o canonical.chatAgents)[i]
            dir == getAgentDirName(agent)
            flow == canonical.conversationFlows[
                       refIndex(canonical.conversationFlows, agent.response_engine.conversation_flow_id)]
        IN  /\ hasContent(fileMap, joinPath(dir, <<"conversation-flow.yaml">>))
            /\ ~hasPositionField(contentOf(fileMap, joinPath(dir, <<"conversation-flow.yaml">>)).body, FALSE)
            /\ hasContent(fileMap, joinPath(dir, <<".positions.json">>))
            /\ positionsKept(flow, contentOf(fileMap, joinPath(dir, <<".positions.json">>)).body)

\* the file:// placeholders in a value, at any depth
RECURSIVE placeholdersIn(_, _)
placeholdersIn(value, isArray) ==
    IF isArray THEN UNION {placeholdersIn(value[i], FALSE) : i \in 1..Len(value)}
    ELSE UNION {IF k \in TextKeys
                THEN (IF startsWithToken(value[k], "file://") THEN {value[k]} ELSE {})
                ELSE IF k \in ArrayKeys \cup ObjectKeys
                THEN placeholdersIn(value[k], k \in ArrayKeys)
                ELSE {} : k \in DOMAIN value}

\* the path a placeholder of a file of `dir` names
placeholderTarget(dir, t) ==
    joinPath(dir, IF startsWithToken(Tail(t), "./") THEN Tail(Tail(t)) ELSE Tail(t))

\* C26 (referential integrity): for every file:// placeholder in a config file
\* of the file map serializeState returns, the file map holds the file the
\* placeholder names, in the directory of the config file
C26_ReferentialIntegrity ==
    pc \in {"serialized", "read"} =>
        \A i \in 1..Len(fileMap) :
            fileMap[i].content.format = "yaml" =>
                \A t \in placeholdersIn(fileMap[i].content.body, FALSE) :
                    isFile(fileMap, placeholderTarget(dirOf(fileMap[i].path), t))

\* the same for the states in which no two agents name the same flow
C26_IntegrityWithoutSharing ==
    (pc \in {"serialized", "read"} /\ Cardinality(flowAgents) <= 1) =>
        \A i \in 1..Len(fileMap) :
            fileMap[i].content.format = "yaml" =>
                \A t \in placeholdersIn(fileMap[i].content.body, FALSE) :
                    isFile(fileMap, placeholderTarget(dirOf(fileMap[i].path), t))

\* C20 (immutability across pipeline stages): after serializeState the state
\* passed in is as it was before the call, and a second serializeState on it
\* returns the file map of the first
C20_Immutability ==
    pc \in {"serialized", "read"} =>
        /\ mutated = canonical
        /\ serializeState(mutated) = fileMap

(***************************************************************************)
(* Specification SpecIncomplete: as SpecRound, but one file, a position    *)
(* sidecar or a file that a file:// placeholder names, is missing from the *)
(* file map when canonicalizeFromFiles reads it                            *)
(***************************************************************************)
isSidecar(path) == path[Len(path)] = ".positions.json"
isExtracted(file) == file.content.format = "md"

LoseFile ==
    /\ pc = "serialized"
    /\ \E i \in 1..Len(fileMap) :
          /\ isSidecar(fileMap[i].path) \/ isExtracted(fileMap[i])
          /\ fileMap' = RemoveAt(fileMap, i)
    /\ pc' = "incomplete"
    /\ UNCHANGED <<keepVars, canonVars, diffVars, mutated, roundTrip, writeVars, cmdVars, pageVars, markVars, testApi>>

DeserializeIncomplete ==
    /\ pc = "incomplete"
    /\ roundTrip' = canonicalizeFromFiles(fileMap)
    /\ pc' = "tolerated"
    /\ UNCHANGED <<keepVars, canonVars, diffVars, fileMap, mutated, writeVars, cmdVars, pageVars, markVars, testApi>>

IncompleteNext == RoundFetch \/ Serialize \/ LoseFile \/ DeserializeIncomplete

SpecIncomplete == RoundInit /\ [][IncompleteNext]_vars

idsOf(list) == {list[i]._id : i \in 1..Len(list)}

\* C19 (tolerant deserialization): when canonicalizeFromFiles returns a state
\* for a file map, it also returns for that file map without one
\* .positions.json or without one file named by a file:// placeholder, and
\* the state returned holds the same resources
C19_TolerantDeserialization ==
    pc = "tolerated" =>
        \A full \in {canonicalizeFromFiles(serializeState(canonical))} :
            full.ok =>
                /\ roundTrip.ok
                /\ \A kind \in Kinds : idsOf(roundTrip.state[kind]) = idsOf(full.state[kind])

\* a sidecar was missing, and canonicalizeFromFiles returned a flow without
\* positions
SidecarTolerated ==
    /\ pc = "tolerated" /\ roundTrip.ok
    /\ Len(roundTrip.state.conversationFlows) > 0
    /\ \A i \in 1..Len(fileMap) : ~isSidecar(fileMap[i].path)
    /\ ~Has(roundTrip.state.conversationFlows[1].nodes[1], "display_position")

(***************************************************************************)
(* Specification SpecWrite: pull, without test cases, on an agents         *)
(* directory and a components directory left by earlier pulls and by hand  *)
(***************************************************************************)

intakeComponent ==
    [conversation_flow_component_id |-> "k1", user_modified_timestamp |-> 1, name |-> "Intake",
     nodes |-> <<flowNode("n1", <<"T1">>, <<>>)>>]
linkedComponent ==
    [conversation_flow_component_id |-> "k2", user_modified_timestamp |-> 2,
     linked_conversation_flow_ids |-> <<"f1">>]

\* the accounts pulled, what the five list endpoints return: one with agent
\* agent_2 and component k2, one with the agents a1, agent_2 and the
\* components k1, k2
writeAccount(voiceAgents, components) ==
    [voiceAgents |-> voiceAgents, chatAgents |-> <<>>,
     llms |-> <<richLlm("l1", 0, FALSE, <<"A">>)>>,
     conversationFlows |-> <<richFlow("f1", 0, FALSE, <<"T1">>)>>,
     components |-> components]
WriteAccounts ==
    {writeAccount(<<namedVoiceAgent("agent_2", "My Bot", flowEngine("f1", 0))>>, <<linkedComponent>>),
     writeAccount(<<namedVoiceAgent("a1", "Bot", llmEngine("l1", 0)),
                    namedVoiceAgent("agent_2", "My Bot", flowEngine("f1", 0))>>,
                  <<intakeComponent, linkedComponent>>)}

\* the names of the sub-directories: the one pull writes agent a1 to, the one
\* it writes agent agent_2 to, and one it writes no agent to
AgentDirNames ==
    <<getAgentDirName([_id |-> "a1", agent_name |-> "Bot"]),
      getAgentDirName([_id |-> "agent_2", agent_name |-> "My Bot"]),
      <<"o", "l", "d">>>>
\* the one pull writes component k1 to, and one it writes no component to
ComponentDirNames == <<getComponentDirName([_id |-> "k1", name |-> "Intake"]), <<"o", "l", "d">>>>

\* a sub-directory as pull finds it: not there ("absent"), or holding an old
\* configuration, a file pull does not write, and a metadata file that names
\* an id, or holds JSON without an id ("noid"), or is no JSON ("corrupt"), or
\* is missing ("none")
previousDir(dir, metaName, meta) ==
    IF meta = "absent" THEN <<>>
    ELSE <<[path |-> joinPath(dir, <<"config.yaml">>), content |-> YamlFile([voice_id |-> "voice0"])],
           [path |-> joinPath(dir, <<"nodes", "/", "old", ".md">>), content |-> MarkdownFile(<<"N">>)]>>
         \o (CASE meta = "none" -> <<>>
               [] meta = "corrupt" ->
                    <<[path |-> joinPath(dir, <<metaName>>), content |-> MarkdownFile(<<"{">>)]>>
               [] meta = "noid" ->
                    <<[path |-> joinPath(dir, <<metaName>>), content |-> JsonFile([version |-> 0])]>>
               [] OTHER ->
                    <<[path |-> joinPath(dir, <<metaName>>), content |-> JsonFile([id |-> meta])]>>)

PreviousAgentTrees ==
    {<<[path |-> <<"README">>, content |-> MarkdownFile(<<"R">>)]>>
     \o previousDir(AgentDirNames[1], ".agent.json", m1)
     \o previousDir(AgentDirNames[2], ".agent.json", m2)
     \o previousDir(AgentDirNames[3], ".agent.json", m3) :
        m1 \in {"absent", "agent_2", "corrupt"},
        m2 \in {"absent", "agent_2"},
        m3 \in {"a1", "agent_2", "noid"}}

PreviousComponentTrees ==
    {previousDir(ComponentDirNames[1], ".component.json", m1)
     \o previousDir(ComponentDirNames[2], ".component.json", m2) :
        m1 \in {"absent", "k2"}, m2 \in {"absent", "k2", "noid"}}

\* the orders in which the file system lists the names
Listings(names) ==
    {listing \in [1..Len(names) -> Range(names)] :
        \A i, j \in 1..Len(names) : listing[i] = listing[j] => i = j}

\* the agentIds option and the componentIds option: null, or a list of ids
AgentIdsOptions == {NoFilter, OnlyIds({"a1"}), OnlyIds({"agent_2"}), OnlyIds({"a1", "agent_2"})}
ComponentIdsOptions == {NoFilter, OnlyIds({"k1"}), OnlyIds({"k2"})}

WriteInit ==
    /\ pc = "pull"
    /\ KeepIdle
    /\ api \in WriteAccounts
    /\ input = EmptyState /\ required = NoLocals /\ canonical = EmptyState
    /\ DiffIdle /\ RoundIdle
    /\ disk \in {[agents |-> at, components |-> ct] : at \in PreviousAgentTrees, ct \in PreviousComponentTrees}
    /\ before = disk
    /\ managed = [agents |-> NoFilter, components |-> NoFilter]
    /\ remoteComponents = <<>>
    /\ threw = FALSE
    /\ CmdIdle /\ PageIdle /\ MarkIdle /\ TestsIdle

\* getRemoteState and writeState
PullAgents ==
    /\ pc = "pull"
    /\ \E agentIds \in AgentIdsOptions, listing \in Listings(AgentDirNames) :
          \E state \in {getRemoteState(api, TRUE, agentIds)} :
          \E done \in {writeState(disk.agents, state, agentIds, listing)} :
              /\ input' = remoteInput(api, TRUE, agentIds)
              /\ required' = canonicalizeLocals(remoteInput(api, TRUE, agentIds))
              /\ canonical' = state
              /\ disk' = [disk EXCEPT !.agents = done.tree]
              /\ managed' = [managed EXCEPT !.agents = agentIds]
              /\ threw' = done.threw
              /\ pc' = IF done.threw THEN "failed" ELSE "agents"
    /\ UNCHANGED <<api, keepVars, diffVars, roundVars, before, remoteComponents, cmdVars, pageVars, markVars, testApi>>

\* getRemoteComponents and writeComponents
PullComponents ==
    /\ pc = "agents"
    /\ \E componentIds \in ComponentIdsOptions, listing \in Listings(ComponentDirNames) :
          \E fetched \in {getRemoteComponents(api.components, componentIds)} :
          \E done \in {writeComponents(disk.components, fetched, componentIds, listing)} :
              /\ remoteComponents' = fetched
              /\ disk' = [disk EXCEPT !.components = done.tree]
              /\ managed' = [managed EXCEPT !.components = componentIds]
              /\ threw' = done.threw
              /\ pc' = IF done.threw THEN "failed" ELSE "done"
    /\ UNCHANGED <<keepVars, canonVars, diffVars, roundVars, before, cmdVars, pageVars, markVars, testApi>>

\* componentIds is undefined: the component sync is skipped
SkipComponents ==
    /\ pc = "agents"
    /\ pc' = "done"
    /\ UNCHANGED <<keepVars, canonVars, diffVars, roundVars, writeVars, cmdVars, pageVars, markVars, testApi>>

WriteNext == PullAgents \/ PullComponents \/ SkipComponents

SpecWrite == WriteInit /\ [][WriteNext]_vars

\* the sub-directories of a directory
dirsOf(tree) == {dirOf(tree[i].path) : i \in {j \in 1..Len(tree) : isNested(tree[j].path)}}

\* the id the directory belongs to: the one its metadata file names, "" when
\* the file is missing or names none
ownerOf(tree, dir, metaName) ==
    LET metaPath == joinPath(dir, <<metaName>>) IN
    IF ~isFile(tree, metaPath) THEN ""
    ELSE LET meta == contentOf(tree, metaPath) IN
         IF meta.format = "json" /\ Has(meta.body, "id") THEN meta.body.id ELSE ""

\* the directories that belong to an id outside the subset
outsideDirs(tree, ids, metaName) ==
    {dir \in dirsOf(tree) : ownerOf(tree, dir, metaName) \notin ids \cup {""}}

sameContent(c1, c2) == c1.format = c2.format /\ c1.body = c2.body

\* the directory holds the same files, with the same contents, in both trees
Untouched(dir, old, new) ==
    /\ \A i \in 1..Len(old) :
          (isNested(old[i].path) /\ dirOf(old[i].path) = dir) =>
              \E j \in 1..Len(new) : new[j].path = old[i].path /\ sameContent(new[j].content, old[i].content)
    /\ \A j \in 1..Len(new) :
          (isNested(new[j].path) /\ dirOf(new[j].path) = dir) => isFile(old, new[j].path)

\* the directories the call wrote the state's agents, or the components, to
agentDirsWritten == writtenDirs(serializeState(canonical))
componentDirsWritten == writtenDirs(serializeComponents(remoteComponents))

\* C4 (as stated): a write with an explicit id subset leaves every directory
\* that belonged to an id outside the subset as it was, file by file, whatever
\* the directory held before.
C4_PartialSyncIsolation ==
    /\ managed.agents.filter =>
          \A dir \in outsideDirs(before.agents, managed.agents.ids, ".agent.json") :
              Untouched(dir, before.agents, disk.agents)
    /\ managed.components.filter =>
          \A dir \in outsideDirs(before.components, managed.components.ids, ".component.json") :
              Untouched(dir, before.components, disk.components)

\* C4 (amended): a write with an explicit id subset leaves every directory
\* that belonged to an id outside the subset as it was, file by file, unless
\* the name of that directory is the name computed for a resource the call
\* writes.
C4_IsolationBarringNameCollision ==
    /\ managed.agents.filter =>
          \A dir \in outsideDirs(before.agents, managed.agents.ids, ".agent.json") \ agentDirsWritten :
              Untouched(dir, before.agents, disk.agents)
    /\ managed.components.filter =>
          \A dir \in outsideDirs(before.components, managed.components.ids, ".component.json")
                     \ componentDirsWritten :
              Untouched(dir, before.components, disk.components)

\* a partial pull of agent a1 and of component k1 has removed a directory of
\* a1 and one of k1 that it wrote nothing to, and has left the directories of
\* agent_2 and of k2 as they were
C4_Witness ==
    /\ pc = "done"
    /\ managed.agents = OnlyIds({"a1"})
    /\ managed.components = OnlyIds({"k1"})
    /\ ownerOf(before.agents, AgentDirNames[3], ".agent.json") = "a1"
    /\ AgentDirNames[3] \notin dirsOf(disk.agents)
    /\ AgentDirNames[1] \in agentDirsWritten
    /\ ownerOf(before.agents, AgentDirNames[2], ".agent.json") = "agent_2"
    /\ Untouched(AgentDirNames[2], before.agents, disk.agents)
    /\ AgentDirNames[2] \in dirsOf(disk.agents)
    /\ ownerOf(before.components, ComponentDirNames[2], ".component.json") = "k2"
    /\ Untouched(ComponentDirNames[2], before.components, disk.components)
    /\ ComponentDirNames[1] \in componentDirsWritten
    /\ ~Untouched(ComponentDirNames[1], before.components, disk.components)

\* C18 (stale cleanup on a full write): after a writeState without an id
\* subset that completed, the sub-directories of the agents directory are
\* those serializeState produced a file for, every file in them is a file of
\* the produced file map, with the content produced, and the files directly
\* in the agents directory are as before
C18_StaleCleanup ==
    (pc \in {"agents", "done"} /\ ~managed.agents.filter) =>
      \A files \in {serializeState(canonical)} :
        /\ dirsOf(disk.agents) = writtenDirs(files)
        /\ \A i \in 1..Len(disk.agents) :
              isNested(disk.agents[i].path) => disk.agents[i].path \in writtenFiles(files)
        /\ \A j \in 1..Len(files) :
              /\ isFile(disk.agents, files[j].path)
              /\ sameContent(contentOf(disk.agents, files[j].path), files[j].content)
        /\ \A i \in 1..Len(before.agents) :
              ~isNested(before.agents[i].path) =>
                 /\ isFile(disk.agents, before.agents[i].path)
                 /\ sameContent(contentOf(disk.agents, before.agents[i].path), before.agents[i].content)

\* a full pull of an account that no longer lists agent a1: the directory
\* that belonged to a1 is gone, and in the directory of agent_2 the node file
\* of an earlier pull is gone
C18_Witness ==
    /\ pc = "agents" /\ ~managed.agents.filter
    /\ Len(canonical.voiceAgents) = 1 /\ canonical.voiceAgents[1]._id = "agent_2"
    /\ ownerOf(before.agents, AgentDirNames[3], ".agent.json") = "a1"
    /\ AgentDirNames[3] \notin dirsOf(disk.agents)
    /\ isFile(before.agents, joinPath(AgentDirNames[2], <<"nodes", "/", "old", ".md">>))
    /\ ~isFile(disk.agents, joinPath(AgentDirNames[2], <<"nodes", "/", "old", ".md">>))
    /\ AgentDirNames[2] \in dirsOf(disk.agents)

(***************************************************************************)
(* Specification SpecCommand: one run of the pull, deploy or publish       *)
(* command against an account. The calls of a batch are all sent when the  *)
(* batch is built; the API answers them one at a time, in any order, each  *)
(* with success or failure; the command goes on once all have settled      *)
(***************************************************************************)
\* the accounts: voice agent a1 with a published version 0 and a draft, chat
\* agent c1 (if any), both on LLM l1, whose draft prompt may differ
LlmAccounts ==
    {acc \in PublishAccounts :
        /\ Len(acc.voiceAgents) = 2
        /\ \A i \in 1..Len(acc.chatAgents) : acc.chatAgents[i].response_engine.type = "retell-llm"
        /\ acc.conversationFlows[2].global_prompt = acc.conversationFlows[1].global_prompt
        /\ acc.conversationFlows[2].nodes = acc.conversationFlows[1].nodes}

\* the same accounts with a1 on a custom LLM, its versions carrying the
\* readonly fields the API adds
customVoiceAgent(v, pub) ==
    [agent_id |-> "a1", version |-> v, is_published |-> pub, agent_name |-> "Bot",
     voice_id |-> "voice1", response_engine |-> customEngine("wss://u"),
     last_modification_timestamp |-> 7, version_title |-> "t", version_description |-> "d"]
CustomAccounts ==
    {[acc EXCEPT !.voiceAgents = <<customVoiceAgent(0, TRUE), customVoiceAgent(1, FALSE)>>] :
        acc \in {a \in LlmAccounts : a.voiceAgents[2].voice_id = "voice1"}}

CommandAccounts == LlmAccounts \cup CustomAccounts

\* the phone numbers of the account: their lists name a1, and a9, an agent
\* that no run publishes
phoneEntry(id, v) == [agent_id |-> id, agent_version |-> v, weight |-> 1]
PhoneLists ==
    LET p1 == [phone_number |-> "+1",
               inbound_agents |-> <<phoneEntry("a9", 3), phoneEntry("a1", 0)>>]
        p2 == [phone_number |-> "+2",
               inbound_agents |-> <<[agent_id |-> "a1", weight |-> 1]>>,
               outbound_agents |-> <<phoneEntry("a1", 0), phoneEntry("a9", 3)>>]
        p3 == [phone_number |-> "+3",
               inbound_agents |-> <<phoneEntry("a9", 3)>>, outbound_agents |-> <<>>] IN
    {<<>>, <<p1, p3>>, <<p3, p2, p1>>}

\* the flags of the run; `tests`: pull's option, true by default; `dirty`:
\* git status lists uncommitted changes in the agents directory when pull
\* asks; `proceed`: the user's answer to the prompt
CommandOptions ==
    {[command |-> c, dryRun |-> d, quiet |-> q, yes |-> y, tests |-> t, dirty |-> g, proceed |-> p] :
        c \in {"pull", "deploy", "publish"}, d \in BOOLEAN, q \in BOOLEAN, y \in BOOLEAN,
        t \in BOOLEAN, g \in BOOLEAN, p \in BOOLEAN}
RelevantOptions ==
    {o \in CommandOptions :
        /\ o.tests
        /\ o.proceed => o.dirty
        /\ o.command = "pull" => ~o.dryRun /\ ~o.quiet
        /\ o.command # "pull" => ~o.yes}

\* the agents directory before the run: a file of the user's, and the
\* directory of an agent that the account no longer has
CommandTree ==
    <<[path |-> <<"README">>, content |-> MarkdownFile(<<"R">>)]>>
    \o previousDir(AgentDirNames[3], ".agent.json", "a9")

\* the local states deploy reads: the draft state with some fields edited
localEdit(state, edit) ==
    CASE edit = "voice" -> [state EXCEPT !.voiceAgents[1].voice_id = "voice9"]
      [] edit = "url" ->
            IF state.voiceAgents[1].response_engine.type # "custom-llm" THEN state
            ELSE [state EXCEPT !.voiceAgents[1].response_engine.llm_websocket_url = "wss://v"]
      [] edit = "prompt" ->
            IF Len(state.llms) = 0 THEN state
            ELSE [state EXCEPT !.llms[1].general_prompt = <<"C">>]
      [] edit = "chat" ->
            IF Len(state.chatAgents) = 0 THEN state
            ELSE [state EXCEPT !.chatAgents[1] = SetKey(@, "agent_name", "Chat")]
      [] OTHER -> state
LocalStates(remote) ==
    {localEdit(localEdit(localEdit(remote, e1), e2), e3) :
        e1 \in {"none", "voice", "url"}, e2 \in {"none", "prompt"}, e3 \in {"none", "chat"}}

\* the API's side of a mutation: an update patches the latest version of the
\* resource; a publish marks the latest version published and opens a new draft
latestAt(list, idKey, id) ==
    CHOOSE i \in {j \in 1..Len(list) : list[j][idKey] = id} :
        \A j \in 1..Len(list) : list[j][idKey] = id => VersionOrZero(list[j]) <= VersionOrZero(list[i])
serverUpdate(list, idKey, id, body) ==
    LET at == latestAt(list, idKey, id) IN
    [list EXCEPT ![at] = [k \in (DOMAIN list[at]) \cup (DOMAIN body) |->
                            IF k \in DOMAIN body THEN body[k] ELSE list[at][k]]]
serverPublish(list, idKey, id) ==
    LET at == latestAt(list, idKey, id) IN
    Append([list EXCEPT ![at] = SetKey(@, "is_published", TRUE)],
           [list[at] EXCEPT !.version = VersionOrZero(list[at]) + 1, !.is_published = FALSE])
serverApply(lists, c) ==
    CASE c.endpoint = "update-agent" ->
            [lists EXCEPT !.voiceAgents = serverUpdate(@, "agent_id", c.id, c.body)]
      [] c.endpoint = "update-chat-agent" ->
            [lists EXCEPT !.chatAgents = serverUpdate(@, "agent_id", c.id, c.body)]
      [] c.endpoint = "update-retell-llm" ->
            [lists EXCEPT !.llms = serverUpdate(@, "llm_id", c.id, c.body)]
      [] c.endpoint = "update-conversation-flow" ->
            [lists EXCEPT !.conversationFlows = serverUpdate(@, "conversation_flow_id", c.id, c.body)]
      [] c.endpoint = "publish-agent" ->
            [lists EXCEPT !.voiceAgents = serverPublish(@, "agent_id", c.id)]
      [] c.endpoint = "publish-chat-agent" ->
            [lists EXCEPT !.chatAgents = serverPublish(@, "agent_id", c.id)]
      [] c.endpoint = "update-test-case-definition" -> lists
\* the test case of the call, patched in the answers that list it
serverUpdateTestCase(answers, c) ==
    IF c.endpoint # "update-test-case-definition" THEN answers
    ELSE [e \in DOMAIN answers |->
            [answers[e] EXCEPT !.data =
                [i \in 1..Len(@) |->
                    IF Has(@[i], "test_case_definition_id") /\ @[i].test_case_definition_id = c.id
                    THEN [k \in (DOMAIN @[i]) \cup (DOMAIN c.body) |->
                            IF k \in DOMAIN c.body THEN c.body[k] ELSE @[i][k]]
                    ELSE @[i]]]]
serverUpdatePhone(list, c) ==
    [i \in 1..Len(list) |->
        IF list[i].phone_number = c.id
        THEN [k \in (DOMAIN list[i]) \cup (DOMAIN c.body) |->
                IF k \in DOMAIN c.body THEN c.body[k] ELSE list[i][k]]
        ELSE list[i]]
\* GET /get-agent-versions/{id}
agentVersions(list, id) == FilterIdx(list, {i \in 1..Len(list) : list[i].agent_id = id}, 1)

readRequest(endpoint, id) == [endpoint |-> endpoint, id |-> id, body |-> <<>>]

MutationEndpoints ==
    {"update-agent", "update-chat-agent", "update-retell-llm", "update-conversation-flow",
     "update-test-case-definition", "publish-agent", "publish-chat-agent", "update-phone-number"}
PhonePassEndpoints == {"list-phone-numbers", "get-agent-versions", "update-phone-number"}

CommandInit ==
    /\ pc = "start"
    /\ KeepIdle
    /\ api \in CommandAccounts
    /\ input = EmptyState /\ required = NoLocals /\ canonical = EmptyState
    /\ DiffIdle /\ RoundIdle
    /\ disk = [agents |-> CommandTree, components |-> <<>>]
    /\ before = disk
    /\ managed = [agents |-> NoFilter, components |-> NoFilter]
    /\ remoteComponents = <<>>
    /\ threw = FALSE
    /\ options \in RelevantOptions
    /\ phones \in IF options.command = "publish" THEN PhoneLists ELSE {<<>>}
    /\ requests = <<>> /\ batch = <<>> /\ phoneBatch = <<>> /\ log = <<>>
    /\ outcome = Running
    /\ PageIdle /\ MarkIdle /\ TestsIdle

returned(ids) == [status |-> "returned", ids |-> ids, exitCode |-> 0]

\* deploy, up to the batch: the states are read and compared; without a
\* change, or in a dry run, deploy returns; otherwise every update is sent
DeployAnalyze ==
    /\ pc = "start" /\ options.command = "deploy"
    /\ \E remote \in {getRemoteState(api, TRUE, NoFilter)} :
       \E local \in LocalStates(remote) :
       \E chg \in {SetKey(computeChanges(local, remote, FALSE), "testCases",
                           testCaseChanges(local.voiceAgents \o local.chatAgents,
                                           disk.agents, testApi, 1))} :
       \E ids \in {findAffectedAgentIds(chg, local)} :
          /\ source' = local /\ reference' = remote /\ includeNew' = FALSE
          /\ changes' = chg /\ affected' = ids
          /\ IF countChanges(chg) = 0
             THEN /\ log' = Append(log, logLine("success", "No changes to deploy", "", "", Null))
                  /\ outcome' = returned({})
                  /\ pc' = "done"
                  /\ UNCHANGED <<batch, requests>>
             ELSE IF isDryRun(options)
             THEN /\ log' = Append(log, logLine("warn", "Dry run mode - no changes will be made", "", "", Null))
                  /\ outcome' = returned(ids)
                  /\ pc' = "done"
                  /\ UNCHANGED <<batch, requests>>
             ELSE /\ batch' = deployCalls(chg)
                  /\ requests' = requests \o requestsOf(deployCalls(chg))
                  /\ pc' = "batch"
                  /\ UNCHANGED <<log, outcome>>
    /\ UNCHANGED <<keepVars, canonVars, edits, roundVars, writeVars, options, phoneBatch, phones, pageVars, markVars, testApi>>

\* publish, up to the batch: the draft and the published state are compared;
\* with no agent to publish, or in a dry run, publish returns; otherwise
\* every publish call is sent
PublishAnalyze ==
    /\ pc = "start" /\ options.command = "publish"
    /\ \E draft \in {getRemoteState(api, TRUE, NoFilter)} :
       \E published \in {getRemoteState(api, FALSE, NoFilter)} :
       \E chg \in {computeChanges(draft, published, TRUE)} :
       \E ids \in {findAffectedAgentIds(chg, draft)} :
          /\ source' = draft /\ reference' = published /\ includeNew' = TRUE
          /\ changes' = chg /\ affected' = ids
          /\ IF ids = {}
             THEN /\ log' = Append(log, logLine("success", "All agents are already up to date", "", "", Null))
                  /\ outcome' = returned({})
                  /\ pc' = "done"
                  /\ UNCHANGED <<batch, requests>>
             ELSE IF isDryRun(options)
             THEN /\ log' = Append(log, logLine("warn", "Dry run mode - no agents will be published", "", "", Null))
                  /\ outcome' = returned(ids)
                  /\ pc' = "done"
                  /\ UNCHANGED <<batch, requests>>
             ELSE /\ batch' = publishCalls(affectedOrder(chg, draft), draft)
                  /\ requests' = requests \o requestsOf(publishCalls(affectedOrder(chg, draft), draft))
                  /\ pc' = "batch"
                  /\ UNCHANGED <<log, outcome>>
    /\ UNCHANGED <<keepVars, canonVars, edits, roundVars, writeVars, options, phoneBatch, phones, pageVars, markVars, testApi>>

\* the API answers one of the calls of the batch
Settle ==
    /\ pc = "batch"
    /\ \E i \in 1..Len(batch), ok \in BOOLEAN :
          /\ batch[i].status = "pending"
          /\ batch' = [batch EXCEPT ![i].status = IF ok THEN "fulfilled" ELSE "rejected"]
          /\ api' = IF ok THEN serverApply(api, batch[i]) ELSE api
          /\ testApi' = IF ok THEN serverUpdateTestCase(testApi, batch[i]) ELSE testApi
    /\ UNCHANGED <<pc, keepVars, input, required, canonical, diffVars, roundVars, writeVars,
                   options, requests, phoneBatch, log, outcome, phones, pageVars, markVars>>

\* deploy, after `await Promise.allSettled`: the results are logged, then the
\* summary; in quiet mode deploy returns, otherwise it pulls
DeployReport ==
    /\ pc = "batch" /\ options.command = "deploy"
    /\ allSettled(batch)
    /\ log' = log \o reportResults(batch, "Updated", "Failed to update")
                  \o <<logLine("success", "Deployed", "changes", "", countChanges(changes))>>
    /\ outcome' = IF options.quiet THEN returned(affected) ELSE [outcome EXCEPT !.ids = affected]
    /\ pc' = IF options.quiet THEN "done" ELSE "repull"
    /\ UNCHANGED <<keepVars, canonVars, diffVars, roundVars, writeVars,
                   options, requests, batch, phoneBatch, phones, pageVars, markVars, testApi>>

\* publish, after `await Promise.allSettled`: the results are logged, then
\* the count of the agents published; the phone numbers follow if a voice
\* agent was published
PublishReport ==
    /\ pc = "batch" /\ options.command = "publish"
    /\ allSettled(batch)
    /\ log' = log \o reportResults(batch, "Published", "Failed to publish")
                  \o <<logLine("success", "Published", "agents", "", Cardinality(fulfilled(batch)))>>
    /\ IF publishedVoiceAgentIds(batch) # {}
       THEN /\ pc' = "phones"
            /\ outcome' = [outcome EXCEPT !.ids = publishedAgentIds(batch)]
       ELSE /\ pc' = IF options.quiet THEN "done" ELSE "repull"
            /\ outcome' = IF options.quiet THEN returned(publishedAgentIds(batch))
                          ELSE [outcome EXCEPT !.ids = publishedAgentIds(batch)]
    /\ UNCHANGED <<keepVars, canonVars, diffVars, roundVars, writeVars,
                   options, requests, batch, phoneBatch, phones, pageVars, markVars, testApi>>

\* updatePhoneNumberVersions, up to its batch: the phone numbers and the
\* versions of each published voice agent are read, the updates are built
\* and, if there are any, all sent
PhoneUpdatesIssue ==
    /\ pc = "phones"
    /\ LET voiceIds == FilterIdx([i \in 1..Len(batch) |-> batch[i].id],
                                 {i \in fulfilled(batch) : batch[i].type = "voice"}, 1)
           versionLists == [id \in Range(voiceIds) |-> agentVersions(api.voiceAgents, id)]
           updates == phoneUpdates(phones, Range(voiceIds),
                                   publishedVersionsOf(Range(voiceIds), versionLists))
           reads == <<readRequest("list-phone-numbers", "")>>
                    \o [i \in 1..Len(voiceIds) |-> readRequest("get-agent-versions", voiceIds[i])] IN
       /\ requests' = requests \o reads \o requestsOf(updates)
       /\ phoneBatch' = updates
       /\ IF Len(updates) = 0
          THEN /\ log' = Append(log, logLine("dim", "No phone numbers to update", "", "", Null))
               /\ pc' = IF options.quiet THEN "done" ELSE "repull"
               /\ outcome' = IF options.quiet THEN returned(outcome.ids) ELSE outcome
          ELSE /\ pc' = "phoneBatch"
               /\ UNCHANGED <<log, outcome>>
    /\ UNCHANGED <<keepVars, canonVars, diffVars, roundVars, writeVars, options, batch, phones, pageVars, markVars, testApi>>

\* the API answers one of the phone-number updates
PhoneSettle ==
    /\ pc = "phoneBatch"
    /\ \E i \in 1..Len(phoneBatch), ok \in BOOLEAN :
          /\ phoneBatch[i].status = "pending"
          /\ phoneBatch' = [phoneBatch EXCEPT ![i].status = IF ok THEN "fulfilled" ELSE "rejected"]
          /\ phones' = IF ok THEN serverUpdatePhone(phones, phoneBatch[i]) ELSE phones
    /\ UNCHANGED <<pc, keepVars, canonVars, diffVars, roundVars, writeVars,
                   options, requests, batch, log, outcome, pageVars, markVars, testApi>>

\* updatePhoneNumberVersions, after `await Promise.allSettled`
PhoneReport ==
    /\ pc = "phoneBatch"
    /\ allSettled(phoneBatch)
    /\ log' = log \o reportResults(phoneBatch, "Updated", "Failed to update phone number")
                  \o <<logLine("success", "Updated", "phone numbers", "", Cardinality(fulfilled(phoneBatch)))>>
    /\ pc' = IF options.quiet THEN "done" ELSE "repull"
    /\ outcome' = IF options.quiet THEN returned(outcome.ids) ELSE outcome
    /\ UNCHANGED <<keepVars, canonVars, diffVars, roundVars, writeVars,
                   options, requests, batch, phoneBatch, phones, pageVars, markVars, testApi>>

\* pull is at its start: as the command run, or called by deploy or publish
\* (which pass no `yes`)
atPull == (pc = "start" /\ options.command = "pull") \/ pc = "repull"
pullYes == options.command = "pull" /\ options.yes
\* deploy and publish call pull without `tests`: the default applies
pullTests == options.command # "pull" \/ options.tests

\* pull: the user declines the prompt; ExitPromptError reaches the command
\* handler, which logs "Aborted" and returns
PullDecline ==
    /\ atPull
    /\ ~pullYes /\ options.dirty /\ ~options.proceed
    /\ log' = log \o <<logLine("warn", "You have uncommitted changes", "", "", Null),
                       logLine("dim", "Aborted", "", "", Null)>>
    /\ outcome' = [status |-> "aborted", ids |-> {}, exitCode |-> 0]
    /\ pc' = "done"
    /\ UNCHANGED <<keepVars, canonVars, diffVars, roundVars, writeVars,
                   options, requests, batch, phoneBatch, phones, pageVars, markVars, testApi>>

\* pull: no prompt, or the user accepts; the draft state is fetched and
\* written, then, unless `tests` is false, the test cases of its agents
PullWrite ==
    /\ atPull
    /\ pullYes \/ ~options.dirty \/ options.proceed
    /\ \E state \in {getRemoteState(api, TRUE, NoFilter)} :
       \E done \in {writeState(disk.agents, state, NoFilter, AgentDirNames)} :
          /\ canonical' = state
          /\ disk' = [disk EXCEPT !.agents =
                         IF ~done.threw /\ pullTests
                         THEN fetchAndWriteTestCases(done.tree, state.voiceAgents \o state.chatAgents,
                                                     testApi, 1)
                         ELSE done.tree]
          /\ threw' = done.threw
          /\ outcome' = IF done.threw THEN [status |-> "threw", ids |-> {}, exitCode |-> 1]
                        ELSE returned(outcome.ids)
    /\ log' = IF options.dirty /\ ~pullYes
              THEN Append(log, logLine("warn", "You have uncommitted changes", "", "", Null))
              ELSE log
    /\ pc' = "done"
    /\ UNCHANGED <<keepVars, api, input, required, diffVars, roundVars, before, managed,
                   remoteComponents, options, requests, batch, phoneBatch, phones, pageVars, markVars, testApi>>

CommandNext ==
    \/ DeployAnalyze \/ PublishAnalyze \/ Settle \/ DeployReport \/ PublishReport
    \/ PhoneUpdatesIssue \/ PhoneSettle \/ PhoneReport \/ PullDecline \/ PullWrite

SpecCommand == CommandInit /\ [][CommandNext]_vars

\* the mutation requests sent so far, the phone-number updates left out
batchRequests ==
    FilterIdx(requests, {i \in 1..Len(requests) :
                            requests[i].endpoint \in MutationEndpoints \ {"update-phone-number"}}, 1)
updateEndpoint(key) ==
    CASE key = "voiceAgents" -> "update-agent"
      [] key = "chatAgents" -> "update-chat-agent"
      [] key = "llms" -> "update-retell-llm"
      [] key = "flows" -> "update-conversation-flow"
callsFor(endpoints, id) ==
    {i \in 1..Len(batch) : batch[i].endpoint \in endpoints /\ batch[i].id = id}
BatchIssued == options.command \in {"deploy", "publish"} /\ Len(batch) > 0
BatchReported == BatchIssued /\ pc # "batch"

phonePassRequests == {i \in 1..Len(requests) : requests[i].endpoint \in PhonePassEndpoints}

\* C13 (causal ordering in publish): as long as a call of the publish batch
\* is pending, no list-phone-numbers, get-agent-versions or
\* update-phone-number request has been sent
C13_PhonePassAfterBatch ==
    phonePassRequests # {} => \A i \in 1..Len(batch) : batch[i].status \in {"fulfilled", "rejected"}

\* the phone pass has sent its requests after a batch of two publish calls,
\* one of which failed
C13_Witness ==
    /\ options.command = "publish"
    /\ Len(batch) = 2 /\ rejected(batch) # {} /\ fulfilled(batch) # {}
    /\ \E i \in phonePassRequests : requests[i].endpoint = "update-phone-number"

mutationRequests == {i \in 1..Len(requests) : requests[i].endpoint \in MutationEndpoints}

\* C14 (abort before mutation): in a run that ended because the user declined
\* the "uncommitted changes" prompt, no update-*, publish-* or
\* update-phone-number request has been sent and the agents directory holds
\* the files it held before the run
C14_AbortBeforeMutation ==
    outcome.status = "aborted" => mutationRequests = {} /\ disk = before

\* C15 (dry run): deploy and publish with dryRun send no update-*, publish-*
\* or update-phone-number request, never reach the pull that follows the
\* batch, leave the agents directory as it was, and end by returning the ids
\* of the agents affected by the changes computed
C15_DryRun ==
    (options.command \in {"deploy", "publish"} /\ options.dryRun) =>
      /\ mutationRequests = {}
      /\ pc \in {"start", "done"}
      /\ disk = before
      /\ pc = "done" =>
            /\ outcome.status = "returned"
            /\ outcome.ids = changedIds(changes.voiceAgents) \cup changedIds(changes.chatAgents)
                             \cup dependentAgentIds(changes, source.voiceAgents \o source.chatAgents)

\* a dry run of deploy that found changes and returned both agents
C15_Witness ==
    /\ options.command = "deploy" /\ options.dryRun /\ pc = "done"
    /\ countChanges(changes) > 0
    /\ outcome.ids = {"a1", "c1"}
    /\ requests = <<>>

\* a dry run of publish that returned the agent whose draft differs
C15_WitnessPublish ==
    /\ options.command = "publish" /\ options.dryRun /\ pc = "done"
    /\ outcome.ids = {"a1"}
    /\ requests = <<>>

\* the summary line logged after the lines of the batch
batchSummary == log[Len(batch) + 1]

\* C16 (failure reporting): at the end of a deploy or publish run that sent
\* a batch, if a call of the batch failed then the summary is not a success
\* line or the exit code is not zero, and if none failed the summary is a
\* success line; in both cases the count of the summary is the number of
\* calls that succeeded
C16_FailureReporting ==
    (BatchReported /\ pc = "done") =>
      /\ rejected(batch) # {} => (batchSummary.level # "success" \/ outcome.exitCode # 0)
      /\ rejected(batch) = {} => batchSummary.level = "success"
      /\ batchSummary.count = Cardinality(fulfilled(batch))

\* the phone pass has just sent its requests: no update has been answered
\* yet, so `phones` is what list-phone-numbers returned
PhonePassIssued ==
    /\ \E i \in 1..Len(requests) : requests[i].endpoint = "list-phone-numbers"
    /\ \A i \in 1..Len(phoneBatch) : phoneBatch[i].status = "pending"
greatestPublished(id) ==
    LET pubs == {i \in 1..Len(api.voiceAgents) :
                    api.voiceAgents[i].agent_id = id /\ api.voiceAgents[i].is_published = TRUE} IN
    api.voiceAgents[CHOOSE i \in pubs : \A j \in pubs :
                        api.voiceAgents[j].version <= api.voiceAgents[i].version].version
PhoneListKeys == {"inbound_agents", "outbound_agents"}
namesPublished(phone, key) ==
    Has(phone, key) /\ \E j \in 1..Len(phone[key]) : phone[key][j].agent_id \in publishedAgentIds(batch)
updatesOf(phone) == {i \in 1..Len(phoneBatch) : phoneBatch[i].id = phone.phone_number}

\* C17 (phone-number rebinding): when the phone pass has sent its requests,
\* a phone number none of whose entries names a just-published agent has no
\* update call; any other has exactly one, and in each list of it that names
\* a just-published agent the update holds the entries of the list in the
\* same order, the entries of just-published agents with agent_version set
\* to the greatest published version of the agent, the others as they were
C17_PhoneRebinding ==
    PhonePassIssued =>
      \A k \in 1..Len(phones) :
        LET phone == phones[k] IN
        IF \A key \in PhoneListKeys : ~namesPublished(phone, key)
        THEN updatesOf(phone) = {}
        ELSE /\ Cardinality(updatesOf(phone)) = 1
             /\ \A i \in updatesOf(phone) : \A key \in PhoneListKeys :
                  namesPublished(phone, key) =>
                    /\ Has(phoneBatch[i].body, key)
                    /\ Len(phoneBatch[i].body[key]) = Len(phone[key])
                    /\ \A j \in 1..Len(phone[key]) :
                         LET old == phone[key][j]
                             sent == phoneBatch[i].body[key][j] IN
                         IF old.agent_id \in publishedAgentIds(batch)
                         THEN /\ sent.agent_id = old.agent_id /\ sent.weight = old.weight
                              /\ sent.agent_version = greatestPublished(old.agent_id)
                         ELSE sent = old

\* a1 was published as version 1; number +2 gets one update holding both of
\* its lists, number +1 one holding its inbound list, number +3 none
C17_Witness ==
    /\ PhonePassIssued /\ Len(phones) = 3 /\ Len(phoneBatch) = 2
    /\ greatestPublished("a1") = 1
    /\ phoneBatch[1].id = "+2" /\ DOMAIN phoneBatch[1].body = PhoneListKeys
    /\ phoneBatch[1].body.outbound_agents = <<phoneEntry("a1", 1), phoneEntry("a9", 3)>>
    /\ phoneBatch[2].id = "+1" /\ DOMAIN phoneBatch[2].body = {"inbound_agents"}

\* the fields a body of an update must not hold, by endpoint
readonlyOf(endpoint) ==
    {"_id", "_version"} \cup
    (CASE endpoint \in {"update-agent", "update-chat-agent"} -> ReadonlyAgentFields
       [] endpoint = "update-retell-llm" -> ReadonlyLlmFields
       [] endpoint = "update-conversation-flow" -> ReadonlyFlowFields)

\* the local resource a call of the deploy batch updates
localOf(c) ==
    LET list == CASE c.endpoint = "update-agent" -> source.voiceAgents
                  [] c.endpoint = "update-chat-agent" -> source.chatAgents
                  [] c.endpoint = "update-retell-llm" -> source.llms
                  [] c.endpoint = "update-conversation-flow" -> source.conversationFlows
    IN  list[refIndex(list, c.id)]

MaxItems == 3

KeepIds == {"a1", "a2"}
KeepVersions == 0..2
KeepTags == {"x", "y"}

\* list entries: { agent_id, version?, agent_name }
KeepItem ==
    [agent_id : KeepIds, version : KeepVersions, agent_name : KeepTags]
    \cup [agent_id : KeepIds, agent_name : KeepTags]

KeepInit == pc = "list" /\ KeepIdle /\ CanonIdle /\ DiffIdle /\ RoundIdle /\ WriteIdle /\ CmdIdle /\ PageIdle /\ MarkIdle /\ TestsIdle

\* the API lists one more entry
KeepPush ==
    /\ pc = "list"
    /\ Len(items) < MaxItems
    /\ \E it \in KeepItem : items' = Append(items, it)
    /\ UNCHANGED <<pc, latest, canonVars, diffVars, roundVars, writeVars, cmdVars, pageVars, markVars, testApi>>

KeepRun ==
    /\ pc = "list"
    /\ latest' = keepLatestVersion(items, "agent_id")
    /\ pc' = "kept"
    /\ UNCHANGED <<items, canonVars, diffVars, roundVars, writeVars, cmdVars, pageVars, markVars, testApi>>

KeepNext == KeepPush \/ KeepRun

SpecKeep == KeepInit /\ [][KeepNext]_vars

\* the input indices of the entries with identifier id
IdxOf(id) == {i \in 1..Len(items) : items[i].agent_id = id}

\* the first input index holding the greatest version among id's entries
FirstGreatest(id) ==
    CHOOSE i \in IdxOf(id) :
        /\ \A j \in IdxOf(id) : VersionOrZero(items[j]) <= VersionOrZero(items[i])
        /\ \A j \in IdxOf(id) :
              VersionOrZero(items[j]) = VersionOrZero(items[i]) => i <= j

\* C5: for every id of the input, keepLatestVersion returns exactly one entry
\* with that id; it has the greatest version among the id's entries (a missing
\* version counting as 0), and of several entries with that greatest version
\* the first in input order is the one retained.
C5_LatestVersionSelection ==
    pc = "kept" =>
        /\ \A k \in 1..Len(latest) : latest[k].agent_id \in {items[i].agent_id : i \in 1..Len(items)}
        /\ \A i \in 1..Len(items) :
              LET id == items[i].agent_id
                  out == {k \in 1..Len(latest) : latest[k].agent_id = id}
              IN  /\ Cardinality(out) = 1
                  /\ \A k \in out : latest[k] = items[FirstGreatest(id)]

\* C5 witness: three entries of one id, the first and the last distinct and
\* tied on the greatest version; the first is the one returned
C5_Witness ==
    /\ pc = "kept"
    /\ Len(items) = 3
    /\ \A i \in 1..3 : items[i].agent_id = "a1"
    /\ VersionOrZero(items[1]) = VersionOrZero(items[3])
    /\ VersionOrZero(items[2]) < VersionOrZero(items[1])
    /\ items[1] # items[3]
    /\ latest = <<items[1]>>

\* a publish that is not a dry run, past its analysis
PublishRan == options.command = "publish" /\ ~options.dryRun /\ pc # "start"
PublishEndpoints == {"publish-agent", "publish-chat-agent"}
draftChatIds == {source.chatAgents[i]._id : i \in 1..Len(source.chatAgents)}
publishSucceeded == {batch[i].id : i \in {j \in 1..Len(batch) : batch[j].status = "fulfilled"}}

\* C29 (publish outcome): in a publish that is not a dry run, every affected
\* agent id has exactly one publish call and one publish request, no other id
\* has one, and the call goes to the chat endpoint exactly when the id is a
\* chat agent of the draft state; the list publish returns holds exactly the
\* ids whose call succeeded; the phone pass sends requests only if a voice
\* agent was published, and reads the versions of such agents only
C29_PublishOutcome ==
    PublishRan =>
        /\ {batch[i].id : i \in 1..Len(batch)} = affected
        /\ \A id \in affected :
              /\ Cardinality({i \in 1..Len(batch) : batch[i].id = id}) = 1
              /\ Cardinality({i \in 1..Len(requests) :
                                 requests[i].endpoint \in PublishEndpoints /\ requests[i].id = id}) = 1
              /\ \A i \in 1..Len(batch) :
                    batch[i].id = id =>
                       /\ (batch[i].endpoint = "publish-chat-agent") = (id \in draftChatIds)
                       /\ batch[i].endpoint \in PublishEndpoints
                       /\ requestOf(batch[i]) \in Range(requests)
        /\ outcome.status = "returned" => outcome.ids = publishSucceeded
        /\ \A i \in 1..Len(requests) :
              requests[i].endpoint \in PhonePassEndpoints =>
                 /\ publishSucceeded \ draftChatIds # {}
                 /\ requests[i].endpoint = "get-agent-versions" =>
                       requests[i].id \in publishSucceeded \ draftChatIds

\* C29 witness: a1 and c1 were to be published; the call for voice agent a1
\* succeeded and the one for chat agent c1 failed; the phone pass read the
\* versions of a1, and publish returned a1 alone
C29_Witness ==
    /\ PublishRan /\ outcome.status = "returned"
    /\ affected = {"a1", "c1"}
    /\ outcome.ids = {"a1"}
    /\ \E i \in 1..Len(batch) :
          batch[i].id = "c1" /\ batch[i].endpoint = "publish-chat-agent" /\ batch[i].status = "rejected"
    /\ \E i \in 1..Len(requests) :
          requests[i].endpoint = "get-agent-versions" /\ requests[i].id = "a1"

(***************************************************************************)
(* Specification SpecTests: one run of pull or deploy against an account   *)
(* whose agents have test cases, over an agents directory that an earlier  *)
(* pull wrote; the list endpoint of the test cases answers each engine     *)
(* with a list, with a body that fails the schema, with 404 or not at all  *)
(***************************************************************************)
testCase(id, name, engine, text) ==
    [test_case_definition_id |-> id, name |-> name, response_engine |-> engine,
     user_prompt |-> text, llm_model |-> "gpt", creation_timestamp |-> 5,
     user_modified_timestamp |-> 6, type |-> "simulation"]

\* the account: agent a1 on LLM l1, agent agent_2 on flow f1
TestsAccount ==
    writeAccount(<<namedVoiceAgent("a1", "Bot", llmEngine("l1", 0)),
                   namedVoiceAgent("agent_2", "My Bot", flowEngine("f1", 0))>>, <<>>)

\* the answers for l1: its test case t1, a body that is not a list of test
\* cases (the type of its entry is not "simulation"), 404, a failure; the
\* answers for f1: its test case t2, a failure
TestAnswers ==
    {[l1 |-> x, f1 |-> y] :
        x \in {[kind |-> "ok", data |-> <<testCase("t1", "Intake", llmEngine("l1", 0), <<"U">>)>>],
               [kind |-> "invalid",
                data |-> <<[testCase("t1", "Intake", llmEngine("l1", 0), <<"V">>) EXCEPT !.type = "other"]>>],
               NotFound,
               [kind |-> "failed", data |-> <<>>]},
        y \in {[kind |-> "ok", data |-> <<testCase("t2", "Start", flowEngine("f1", 0), <<"U">>)>>],
               [kind |-> "failed", data |-> <<>>]}}

\* the agents directory: what a pull of the account wrote, then in the
\* directory of a1 no test case, t1 as pulled, or t1 with its prompt edited,
\* and in the directory of agent_2 no test case, or t2 with its prompt edited
withLocalTests(tree, dir, testCases, engine) ==
    IF Len(testCases) = 0 THEN tree ELSE writeTestCases(tree, testCases, dir, engine)
TestTrees ==
    {withLocalTests(withLocalTests(serializeState(getRemoteState(TestsAccount, TRUE, NoFilter)),
                                   AgentDirNames[1], t1s, llmEngine("l1", 0)),
                    AgentDirNames[2], t2s, flowEngine("f1", 0)) :
        t1s \in {<<>>, <<testCase("t1", "Intake", llmEngine("l1", 0), <<"U">>)>>,
                 <<testCase("t1", "Intake", llmEngine("l1", 0), <<"E">>)>>},
        t2s \in {<<>>, <<testCase("t2", "Start", flowEngine("f1", 0), <<"E">>)>>}}

TestOptions ==
    {[command |-> "pull", dryRun |-> FALSE, quiet |-> FALSE, yes |-> TRUE, tests |-> t,
      dirty |-> FALSE, proceed |-> FALSE] : t \in BOOLEAN}
    \cup {[command |-> "pull", dryRun |-> FALSE, quiet |-> FALSE, yes |-> FALSE, tests |-> TRUE,
           dirty |-> TRUE, proceed |-> FALSE]}
    \cup {[command |-> "deploy", dryRun |-> d, quiet |-> q, yes |-> FALSE, tests |-> TRUE,
           dirty |-> FALSE, proceed |-> FALSE] : d \in BOOLEAN, q \in BOOLEAN}

TestsInit ==
    /\ pc = "start"
    /\ KeepIdle
    /\ api = TestsAccount
    /\ input = EmptyState /\ required = NoLocals /\ canonical = EmptyState
    /\ DiffIdle /\ RoundIdle
    /\ disk \in {[agents |-> tree, components |-> <<>>] : tree \in TestTrees}
    /\ before = disk
    /\ managed = [agents |-> NoFilter, components |-> NoFilter]
    /\ remoteComponents = <<>>
    /\ threw = FALSE
    /\ options \in TestOptions
    /\ phones = <<>>
    /\ requests = <<>> /\ batch = <<>> /\ phoneBatch = <<>> /\ log = <<>>
    /\ outcome = Running
    /\ PageIdle /\ MarkIdle
    /\ testApi \in TestAnswers

TestsNext == DeployAnalyze \/ Settle \/ DeployReport \/ PullDecline \/ PullWrite

SpecTests == TestsInit /\ [][TestsNext]_vars

\* deploy has analysed the changes, and no call has been answered yet
DeployAnalyzed ==
    /\ options.command = "deploy" /\ pc # "start"
    /\ \A i \in 1..Len(batch) : batch[i].status = "pending"

\* the agents deploy read, their local test cases, and the answer to the
\* list request for their engine
localAgents == source.voiceAgents \o source.chatAgents
localTestsOf(agent) == getLocalTestCases(before.agents, getAgentDirName(agent)).value
answerOf(agent) == answerFor(testApi, normalizeResponseEngine(agent.response_engine))
fetchFails(agent) == answerOf(agent).kind \in {"failed", "invalid"}
testCaseIds(list) == {list[i].id : i \in 1..Len(list)}

\* C24 (recoverable test-case errors): when deploy has analysed the changes,
\* an agent whose remote test cases could not be fetched or failed validation
\* has none of its test cases among the changes; the run has gone on: the
\* changes of the agents, the LLMs and the flows are those of computeChanges,
\* the test-case changes of every other agent are there, and, unless there is
\* no change or the run is a dry run, there is one call, sent, for every change
C24_RecoverableTestCaseErrors ==
    DeployAnalyzed =>
        /\ \A i \in 1..Len(localAgents) :
              fetchFails(localAgents[i]) =>
                 \A j \in 1..Len(localTestsOf(localAgents[i])) :
                    localTestsOf(localAgents[i])[j]._id \notin testCaseIds(changes.testCases)
        /\ outcome.status # "threw"
        /\ \A key \in {"voiceAgents", "chatAgents", "llms", "flows"} :
              changes[key] = computeChanges(source, reference, FALSE)[key]
        /\ \A i \in 1..Len(localAgents) :
              answerOf(localAgents[i]).kind = "ok" =>
                 \A c \in Range(localTestCaseChanges(localTestsOf(localAgents[i]),
                                                     canonicalizeTestCases(answerOf(localAgents[i]).data), 1)) :
                    c \in Range(changes.testCases)
        /\ (~options.dryRun /\ countChanges(changes) > 0) =>
              /\ pc = "batch"
              /\ Len(batch) = countChanges(changes)
              /\ requests = requestsOf(batch)
              /\ \A key \in {"voiceAgents", "chatAgents", "llms", "flows"} :
                    \A k \in 1..Len(changes[key]) :
                       Cardinality(callsFor({updateEndpoint(key)}, changes[key][k].id)) = 1
              /\ \A k \in 1..Len(changes.testCases) :
                    Cardinality(callsFor({"update-test-case-definition"}, changes.testCases[k].id)) = 1

\* C24 witness: the list request for l1, the engine of a1, fails; the local
\* test cases t1 of a1 and t2 of agent_2 are both edited, and so is a1; the
\* batch holds the update of a1 and the update of t2, and none of t1
C24_Witness ==
    /\ DeployAnalyzed /\ pc = "batch"
    /\ testApi.l1.kind = "failed" /\ testApi.f1.kind = "ok"
    /\ Len(localTestsOf(localAgents[1])) = 1
    /\ localTestsOf(localAgents[1])[1].user_prompt = <<"E", "\n">>
    /\ testCaseIds(changes.testCases) = {"t2"}
    /\ Len(changes.voiceAgents) = 1
    /\ Cardinality(callsFor({"update-agent"}, "a1")) = 1
    /\ Cardinality(callsFor({"update-test-case-definition"}, "t2")) = 1
    /\ callsFor({"update-test-case-definition"}, "t1") = {}

\* the same with a body for l1 that fails the schema
C24_WitnessInvalid ==
    /\ DeployAnalyzed /\ pc = "batch"
    /\ testApi.l1.kind = "invalid" /\ testApi.f1.kind = "ok"
    /\ Len(localTestsOf(localAgents[1])) = 1
    /\ testCaseIds(changes.testCases) = {"t2"}
    /\ callsFor({"update-test-case-definition"}, "t1") = {}

\* pull has written the state and returned
Pulled == options.command = "pull" /\ pc = "done" /\ outcome.status = "returned"
pulledAgents == canonical.voiceAgents \o canonical.chatAgents

\* the files that were under the tests directory of `dir` when the run
\* started are all there, with the content they had
testsKept(dir) ==
    \A i \in 1..Len(before.agents) :
        underTests(dir, before.agents[i].path) =>
            /\ isFile(disk.agents, before.agents[i].path)
            /\ sameContent(contentOf(disk.agents, before.agents[i].path), before.agents[i].content)
hadTests(dir) == \E i \in 1..Len(before.agents) : underTests(dir, before.agents[i].path)

\* C27: after a pull with tests = false, every file that was under the tests
\* directory of a pulled agent is still there, unchanged
C27_TestsKeptWithoutTests ==
    (Pulled /\ ~options.tests) =>
        \A i \in 1..Len(pulledAgents) : testsKept(getAgentDirName(pulledAgents[i]))

\* C28: after a pull with tests = true, the test files of an agent whose list
\* request failed, or was answered with a body that fails the schema, are
\* still there, unchanged
C28_TestsKeptOnFailure ==
    (Pulled /\ options.tests) =>
        \A i \in 1..Len(pulledAgents) :
            answerFor(testApi, normalizeResponseEngine(pulledAgents[i].response_engine)).kind
                \in {"failed", "invalid"}
            => testsKept(getAgentDirName(pulledAgents[i]))

\* what does hold: after a pull with tests = true the tests directory of an
\* agent whose list request was answered with a list holds the files of that
\* list and no other
TestsWrittenFromList ==
    (Pulled /\ options.tests) =>
        \A i \in 1..Len(pulledAgents) :
            LET dir == getAgentDirName(pulledAgents[i])
                engine == normalizeResponseEngine(pulledAgents[i].response_engine)
                answer == answerFor(testApi, engine) IN
            (answer.kind = "ok" /\ Len(answer.data) > 0) =>
                \A f \in {writeTestCases(<<>>, answer.data, dir, engine)} :
                    /\ \A j \in 1..Len(f) : isFile(disk.agents, f[j].path)
                    /\ \A j \in 1..Len(disk.agents) :
                          underTests(dir, disk.agents[j].path) => isFile(f, disk.agents[j].path)

(***************************************************************************)
(* retellPagination: cursor pagination over a list endpoint                *)
(***************************************************************************)

\* the options of one call of `op`
pageOptions(lim, cur) ==
    [limit |-> lim,
     pagination_key |-> cur.pagination_key,
     pagination_key_version |-> cur.pagination_key_version]

\* a cursor that forgets the version of the last item
nextCursorNoVersion(lastItem, idKey) ==
    [pagination_key |-> lastItem[idKey], pagination_key_version |-> Null]

\* paginationKey = id; paginationKeyVersion = the last item's version when it
\* is a number, undefined otherwise
nextCursor(lastItem, idKey) ==
    [pagination_key |-> lastItem[idKey],
     pagination_key_version |->
        IF Has(lastItem, "version") THEN lastItem.version ELSE Null]

\* the three breaks of the loop: a short page, no last item, or a last item
\* whose id is not a string
stopsAfter(page, lim, idKey) ==
    \/ Len(page) < lim
    \/ Len(page) = 0
    \/ ~Has(page[Len(page)], idKey)

(***************************************************************************)
(* Specification SpecPage: one run of retellPagination against an endpoint *)
(* that may answer any page                                                *)
(***************************************************************************)

MaxLimit == 2
MaxPages == 3
MaxPageLen == 2

PageItems ==
    {[agent_id |-> "a1", version |-> 0],
     [agent_id |-> "a1", version |-> 1],
     [agent_id |-> "a2"],
     [version |-> 2]}

EndpointPages == UNION {[1..n -> PageItems] : n \in 0..MaxPageLen}

PageInit ==
    /\ pc = "page"
    /\ KeepIdle /\ CanonIdle /\ DiffIdle /\ RoundIdle /\ WriteIdle /\ CmdIdle
    /\ MarkIdle /\ TestsIdle
    /\ limit \in 1..MaxLimit
    /\ cursor = NoCursor
    /\ pageRequests = <<>>
    /\ pages = <<>>
    /\ results = <<>>

\* `await op({limit, pagination_key, pagination_key_version})`: the call
SendPage ==
    /\ pc = "page"
    /\ Len(pageRequests) < MaxPages
    /\ pageRequests' = Append(pageRequests, pageOptions(limit, cursor))
    /\ pc' = "waiting"
    /\ UNCHANGED <<keepVars, canonVars, diffVars, roundVars, writeVars, cmdVars,
                   limit, cursor, pages, results, markVars, testApi>>

\* the page arrives: the rest of the loop body
ReceivePage ==
    /\ pc = "waiting"
    /\ \E page \in EndpointPages :
          /\ pages' = Append(pages, page)
          /\ results' = results \o page
          /\ IF stopsAfter(page, limit, "agent_id")
             THEN pc' = "returned" /\ UNCHANGED cursor
             ELSE /\ cursor' = nextCursor(page[Len(page)], "agent_id")
                  /\ pc' = "page"
    /\ UNCHANGED <<keepVars, canonVars, diffVars, roundVars, writeVars, cmdVars,
                   limit, pageRequests, markVars, testApi>>

PageNext == SendPage \/ ReceivePage

SpecPage == PageInit /\ [][PageNext]_vars

RECURSIVE concatPages(_, _)
concatPages(ps, i) ==
    IF i > Len(ps) THEN <<>> ELSE ps[i] \o concatPages(ps, i + 1)

\* C23: the requests go out one after another (never two unanswered); the
\* first carries no cursor; request n+1 carries the id and the version of the
\* last item of page n, and page n was a full page; after a page shorter than
\* the limit no request follows and the run returns; what is returned is the
\* concatenation of the fetched pages in fetch order.
C23_PaginationProtocol ==
    /\ Len(pageRequests) - Len(pages) \in {0, 1}
    /\ (pc = "waiting") = (Len(pageRequests) = Len(pages) + 1)
    /\ \A n \in 1..Len(pageRequests) : pageRequests[n].limit = limit
    /\ Len(pageRequests) >= 1 =>
          /\ pageRequests[1].pagination_key = ""
          /\ pageRequests[1].pagination_key_version = Null
    /\ \A n \in 1..(Len(pageRequests) - 1) :
          LET prev == pages[n]
              lastItem == prev[Len(prev)]
          IN  /\ Len(prev) >= limit
              /\ Has(lastItem, "agent_id")
              /\ pageRequests[n + 1].pagination_key = lastItem.agent_id
              /\ pageRequests[n + 1].pagination_key_version =
                    (IF Has(lastItem, "version") THEN lastItem.version ELSE Null)
    /\ \A n \in 1..Len(pages) :
          Len(pages[n]) < limit => (n = Len(pageRequests) /\ pc = "returned")
    /\ pc = "returned" => results = concatPages(pages, 1)

\* C23 witness: three requests; the second follows an item with a version, the
\* third an item without one; the third page is short and the run has returned
C23_Witness ==
    /\ pc = "returned"
    /\ limit = 2
    /\ Len(pageRequests) = 3
    /\ Len(pages) = 3
    /\ pageRequests[2].pagination_key_version = 1
    /\ pageRequests[3].pagination_key = "a2"
    /\ pageRequests[3].pagination_key_version = Null
    /\ Len(pages[3]) = 1
    /\ Len(results) = 5

(***************************************************************************)
(* Specification SpecMarkdown: a prompt is written to a markdown file with *)
(* writeMarkdown, and the placeholder left in its place is resolved with   *)
(* resolveFilePlaceholders, the file read from the file map                *)
(***************************************************************************)

MaxPromptLen == 3

PromptTokens == {"A", " ", "\n", "---"}
PromptTexts == UNION {[1..n -> PromptTokens] : n \in 0..MaxPromptLen}

\* no frontmatter, or the navigation frontmatter of a node
Navigations == {<<>>, nodeFrontmatter(<<>>, [id |-> "n1"])}

PromptDir == AgentDirNames[1]
PromptFile == "general_prompt.md"

MarkdownInit ==
    /\ pc = "prompt"
    /\ KeepIdle /\ CanonIdle /\ DiffIdle /\ RoundIdle /\ WriteIdle /\ CmdIdle /\ PageIdle
    /\ TestsIdle
    /\ markdownBody \in PromptTexts
    /\ navigation \in Navigations
    /\ resolved = [ok |-> TRUE, value |-> <<>>]

\* `files[path] = await writeMarkdown(body, frontmatter)`
WritePrompt ==
    /\ pc = "prompt"
    /\ fileMap' = putFile(fileMap, joinPath(PromptDir, <<PromptFile>>),
                          writeMarkdown(markdownBody, navigation))
    /\ pc' = "written"
    /\ UNCHANGED <<keepVars, canonVars, diffVars, mutated, roundTrip, writeVars, cmdVars,
                   pageVars, markVars, testApi>>

\* resolveFilePlaceholders on the value that holds the placeholder
ResolvePlaceholder ==
    /\ pc = "written"
    /\ resolved' = resolveText(<<"file://", "./", PromptFile>>, fileMap, PromptDir)
    /\ pc' = "resolved"
    /\ UNCHANGED <<keepVars, canonVars, diffVars, roundVars, writeVars, cmdVars,
                   pageVars, markdownBody, navigation, testApi>>

MarkdownNext == WritePrompt \/ ResolvePlaceholder

SpecMarkdown == MarkdownInit /\ [][MarkdownNext]_vars

\* C25: whatever the prompt, and with or without frontmatter, resolving the
\* placeholder of the file writeMarkdown wrote returns normally and gives the
\* prompt back, trailing blank space aside.
C25_PlaceholderRoundTrip ==
    pc = "resolved" =>
        /\ resolved.ok
        /\ trimEnd(resolved.value) = trimEnd(markdownBody)

\* the prompts for which the round trip does give the prompt back: those that
\* do not open with blank space or with a "---" line, and are not blank
PlainPrompt(t) ==
    /\ Len(trim(t)) > 0
    /\ ~(t[1] \in SpaceChars)
    /\ (Len(navigation) = 0 => t[1] # "---")
PlainRoundTrip ==
    (pc = "resolved" /\ PlainPrompt(markdownBody)) =>
        /\ resolved.ok
        /\ trimEnd(resolved.value) = trimEnd(markdownBody)

====
